---- MODULE Spec2Model ----
(***************************************************************************)
(* The job queue (job_queue.py), the two worker loops (app.py's            *)
(* background_worker and worker.py's VideoWorker.run) and the submission   *)
(* path (app.py's create_video) of the video generator, as a state machine.*)
(*                                                                         *)
(* The store is the JSON file outputs/job_queue.json: an insertion-ordered *)
(* map of job records (a sequence of records, as Python dicts and JSON     *)
(* objects keep insertion order) and the Queue Index (a list of ids).      *)
(* An optional value is None (the empty tuple) or Some(v) (a 1-tuple).     *)
(* Timestamps are integers read from the clock `now`.                      *)
(***************************************************************************)
EXTENDS Integers, Sequences, FiniteSets, TLC

\* ------------------------------------------------------------------ bounds
MaxJobs == 3
MaxTime == 2
MaxFaults == 2

\* ------------------------------------------------------------------ values
None == <<>>
Some(v) == <<v>>

QUEUED == "queued"
PROCESSING == "processing"
COMPLETED == "completed"
FAILED == "failed"

JobStatus == {QUEUED, PROCESSING, COMPLETED, FAILED}

Titles == {"A"}
\* the request payloads a client sends (VideoRequest.dict())
VideoRequest == [title : Titles]
\* the --days arguments given to the cleanup command
Days == {0, 1}
\* the exceptions the pipeline raises, by message
PipelineErrors == {"render failed"}
\* the two worker loops
Impls == {"app", "standalone"}

\* config.py
MAX_SCRIPT_LENGTH == 1500
VIDEO_FORMATS == {"9:16", "16:9", "1:1"}
VIDEO_STYLES == {"Realistic Action Art", "B&W Sketch", "Comic Noir", "Retro Noir",
                 "Medieval Painting", "Anime", "Warm Fable", "Hyper Realistic",
                 "3D Cartoon", "Caricature"}

\* the keys of config.VOICE_TYPES
VOICE_TYPES == {"Roger", "Sarah", "Shelby", "Laura", "Charlie", "George", "James",
                "Callum", "B.Giffen", "River", "Liam", "Alice", "Matilda",
                "Jessica", "Lulu Lollipop", "Eric", "Chris", "Brian", "Daniel",
                "Lily", "Adam", "Bill"}

\* the bodies POSTed to /api/create-video; a script is given by its number
\* of characters, the only thing create_video reads of it
RequestFormats == {"16:9", "4:3"}
RequestStyles == {"Anime", "Cubism"}
ScriptLengths == {MAX_SCRIPT_LENGTH, MAX_SCRIPT_LENGTH + 1}
RequestBodies ==
    [title : Titles, format : RequestFormats, style : RequestStyles,
     script : ScriptLengths]

\* len(video_data.script) > config.MAX_SCRIPT_LENGTH
TooLong(video_data) == video_data.script > MAX_SCRIPT_LENGTH

EmptyStore == [jobs |-> <<>>, queue |-> <<>>]

\* ------------------------------------------------------------------ state
VARIABLES
    store,      \* the content of outputs/job_queue.json
    videos,     \* the rows of the videos table
    lastRowId,  \* the table's AUTOINCREMENT counter
    now,        \* the clock datetime.now() reads
    uuidCount,  \* how many identifiers uuid4 has produced
    impl,       \* which worker loop runs
    running,    \* worker_running / VideoWorker.running
    pc,         \* the worker's position
    job,        \* the worker's local `job`, as get_next_job returned it
    result,     \* the worker's local `result`
    exc,        \* the exception the worker is handling
    faults,     \* how many I/O errors or terminations the environment has caused
    spc,        \* the submission path's position inside add_job
    sdata,      \* add_job's local `data`
    sjob,       \* add_job's local job_id and video_data
    wdata,      \* update_job's local `data`
    issued,     \* history: the identifiers add_job returned, in order
    started,    \* history: the identifiers the worker moved to processing, in order
    runs,       \* history: the generate_video calls that ended, in order
    stages,     \* history: the stages the running generate_video call completed
    args,       \* the arguments of the call under study
    ret,        \* what that call returned or raised; None before it ends
    w2,         \* a second worker (worker.py): its position and its locals
    stopReq,    \* history: a stop of the worker has been requested
    files       \* the paths of the files in outputs/videos

vars == <<store, videos, lastRowId, now, uuidCount, impl, running, pc, job,
          result, exc, faults, spc, sdata, sjob, wdata, issued, started,
          runs, stages, args, ret, w2, stopReq, files>>

\* ------------------------------------------------------------ the job map
Range(s) == {s[k] : k \in 1..Len(s)}

Ids(data) == {data.jobs[k].id : k \in 1..Len(data.jobs)}

HasJob(data, id) == id \in Ids(data)

IndexOf(data, id) == CHOOSE k \in 1..Len(data.jobs) : data.jobs[k].id = id

\* data['jobs'][job_id]
JobOf(data, id) == data.jobs[IndexOf(data, id)]

\* data['jobs'].get(job_id)
JobsGet(data, id) == IF HasJob(data, id) THEN Some(JobOf(data, id)) ELSE None

\* data['jobs'][job_id] = j : in place for a known key, at the end for a new one
JobsSet(data, id, j) ==
    IF HasJob(data, id)
    THEN [data EXCEPT !.jobs[IndexOf(data, id)] = j]
    ELSE [data EXCEPT !.jobs = Append(@, j)]

\* ----------------------------------------------------------- job_queue.py
uuid4 == uuidCount + 1

NewJob(id, video_data, t) ==
    [id |-> id, status |-> QUEUED, progress |-> 0, message |-> <<"Job queued">>,
     video_data |-> video_data, created_at |-> t, started_at |-> None,
     completed_at |-> None, result |-> None, error |-> None]

\* a mutant of QueueAppend: the identifier is put in front
QueueInsertFront(queue, id) == <<id>> \o queue

QueueAppend(queue, id) == Append(queue, id)

add_job(data, id, video_data, t) ==
    LET withJob == JobsSet(data, id, NewJob(id, video_data, t))
    IN  [withJob EXCEPT !.queue = QueueAppend(@, id)]

RECURSIVE FirstQueued(_, _)
FirstQueued(data, queue) ==
    IF queue = <<>> THEN None
    ELSE LET j == JobsGet(data, Head(queue))
         IN  IF j # None /\ j[1].status = QUEUED THEN j
             ELSE FirstQueued(data, Tail(queue))

Reverse(q) == [k \in 1..Len(q) |-> q[Len(q) + 1 - k]]

\* a mutant of get_next_job: the newest queued job
get_next_job_newest(data) == FirstQueued(data, Reverse(data.queue))

\* a mutant of get_next_job: the first job of the Queue Index, whatever its status
get_next_job_any_status(data) ==
    IF data.queue = <<>> THEN None ELSE JobsGet(data, Head(data.queue))

\* a mutant of get_next_job: failed jobs are picked up again
RECURSIVE FirstQueuedOrFailed(_, _)
FirstQueuedOrFailed(data, queue) ==
    IF queue = <<>> THEN None
    ELSE LET j == JobsGet(data, Head(queue))
         IN  IF j # None /\ j[1].status \in {QUEUED, FAILED} THEN j
             ELSE FirstQueuedOrFailed(data, Tail(queue))

get_next_job_retrying(data) == FirstQueuedOrFailed(data, data.queue)

get_next_job(data) == FirstQueued(data, data.queue)

\* job.update(updates): the given keys replace or extend the record's
update_job(data, id, updates) == JobsSet(data, id, updates @@ JobOf(data, id))

get_job(data, id) == JobsGet(data, id)

\* a mutant of get_queued_jobs: every job, whatever its status
get_queued_jobs_any_status(data) == data.jobs

\* a mutant of get_queued_jobs: the newest queued job comes first
get_queued_jobs_newest_first(data) ==
    Reverse(SelectSeq(data.jobs, LAMBDA j : j.status = QUEUED))

\* the values of the jobs map, in its iteration order, that are queued
get_queued_jobs(data) == SelectSeq(data.jobs, LAMBDA j : j.status = QUEUED)

get_processing_jobs(data) == SelectSeq(data.jobs, LAMBDA j : j.status = PROCESSING)

\* enumerate(queued_jobs): the 0-based index of the record with this id, or -1
get_queue_position(data, job_id) ==
    LET queued_jobs == get_queued_jobs(data)
        hits == {i \in 1..Len(queued_jobs) : queued_jobs[i].id = job_id}
    IN  IF hits = {} THEN -1
        ELSE (CHOOSE i \in hits : \A k \in hits : i <= k) - 1

\* a mutant of IsOld: a job completed exactly at the cutoff counts as old
IsOldInclusive(j, cutoff) ==
    /\ j.status \in {COMPLETED, FAILED}
    /\ j.completed_at # None
    /\ j.completed_at[1] <= cutoff

IsOld(j, cutoff) ==
    /\ j.status \in {COMPLETED, FAILED}
    /\ j.completed_at # None
    /\ j.completed_at[1] < cutoff

jobs_to_remove(data, days, t) ==
    LET old == SelectSeq(data.jobs, LAMBDA j : IsOld(j, t - days))
    IN  [k \in 1..Len(old) |-> old[k].id]

\* a mutant of cleanup_old_jobs: the Queue Index keeps the removed identifiers
cleanup_jobs_map_only(data, days, t) ==
    LET gone == Range(jobs_to_remove(data, days, t))
    IN  [jobs |-> SelectSeq(data.jobs, LAMBDA j : j.id \notin gone),
         queue |-> data.queue]

\* del data['jobs'][job_id]
JobsDel(jobs, id) == SelectSeq(jobs, LAMBDA j : j.id # id)

\* data['queue'].remove(job_id): the first occurrence goes
QueueRemove(queue, id) ==
    LET k == CHOOSE n \in 1..Len(queue) :
                 queue[n] = id /\ \A m \in 1..(n - 1) : queue[m] # id
    IN  SubSeq(queue, 1, k - 1) \o SubSeq(queue, k + 1, Len(queue))

RECURSIVE RemoveJobs(_, _)
RemoveJobs(data, ids) ==
    IF ids = <<>> THEN data
    ELSE LET id == Head(ids)
             next == [jobs |-> JobsDel(data.jobs, id),
                      queue |-> IF id \in Range(data.queue)
                                THEN QueueRemove(data.queue, id)
                                ELSE data.queue]
         IN  RemoveJobs(next, Tail(ids))

cleanup_old_jobs(data, days, t) == RemoveJobs(data, jobs_to_remove(data, days, t))

\* ------------------------------------------------------- video_composer.py
\* slugify, on the titles of the requests: lower case, words joined by "-"
slugify(video_title) ==
    CASE video_title = "A" -> "a"

\* the file create_video renders to, as the name under VIDEOS_DIR
output_path(video_title) == slugify(video_title)

\* ------------------------------------------------------------- pipeline.py
VideoMetadata(video_data, video_id) ==
    [id |-> video_id, title |-> video_data.title,
     path |-> output_path(video_data.title), status |-> "completed"]

\* the stages of generate_video before the record is written, in the order
\* of its statements
PipelineStages == <<"narration", "prompts", "images", "compose">>

\* a mutant of AfterStage: composition starts as soon as the prompts exist
AfterStageSkipsImages(p) ==
    CASE p = "pipeline" -> "prompts"
      [] p = "prompts" -> "compose"
      [] p = "images" -> "compose"
      [] p = "compose" -> "add_video"

\* the statement of generate_video that runs when the call at p has returned;
\* at "pipeline" the worker has called generate_video and narration is next
AfterStage(p) ==
    CASE p = "pipeline" -> "prompts"
      [] p = "prompts" -> "images"
      [] p = "images" -> "compose"
      [] p = "compose" -> "add_video"

\* a mutant of NextRowId: the largest row id of the table plus one, as a
\* table without AUTOINCREMENT assigns it
RowIdAfterLargest(rows, last) ==
    IF rows = <<>> THEN 1
    ELSE 1 + (CHOOSE m \in {rows[k].id : k \in 1..Len(rows)} :
                 \A k \in 1..Len(rows) : rows[k].id <= m)

\* cursor.lastrowid of an insert into a table whose id is AUTOINCREMENT
NextRowId(rows, last) == last + 1

\* ------------------------------------------------------ image_generator.py
\* the bound on the number of prompts of a call
MaxPrompts == 3

\* the bodies create_video answers with 202
AcceptedBodies == {b \in RequestBodies : ~TooLong(b)}

\* the video_format values generate_images can be called with: the configured
\* ones and those of the bodies the submission path accepts
ImageFormats == VIDEO_FORMATS \cup {b.format : b \in AcceptedBodies}

\* the calls of generate_images: N prompts, a format, whether GOOGLE_API_KEY
\* is set, and for each prompt whether the Gemini call and the DALL-E call
\* would save an image (otherwise they fail or give no image data)
ImageCalls ==
    UNION {[prompts : {[i \in 1..n |-> "prompt"]},
            video_format : ImageFormats,
            gemini_key : BOOLEAN,
            gemini : [1..n -> BOOLEAN],
            dalle : [1..n -> BOOLEAN]] : n \in 0..MaxPrompts}

get_image_size(video_format) ==
    CASE video_format = "9:16" -> "1024x1792"
      [] video_format = "16:9" -> "1792x1024"
      [] OTHER -> "1024x1024"

\* both provider methods catch every exception and return None
generate_with_gemini(call, index, size) ==
    IF call.gemini[index] THEN Some(<<"image", index>>) ELSE None

generate_with_dalle(call, index, size) ==
    IF call.dalle[index] THEN Some(<<"image", index>>) ELSE None

\* config.VIDEO_FORMATS[video_format] raises KeyError for a format that is
\* not configured; None stands for that exception
create_placeholder(index, video_format) ==
    IF video_format \in VIDEO_FORMATS THEN Some(<<"placeholder", index>>) ELSE None

\* the except clause of the loop body: the placeholder is appended; None
\* when creating it raises
PlaceholderOnFailure(image_paths, index, video_format) ==
    LET image_path == create_placeholder(index, video_format)
    IN  IF image_path = None THEN None ELSE Some(Append(image_paths, image_path[1]))

\* a mutant of try_providers: DALL-E is asked for every prompt
try_providers_always_dalle(call, i, size) ==
    LET first == IF call.gemini_key
                 THEN generate_with_gemini(call, i, size) ELSE None
        second == generate_with_dalle(call, i, size)
    IN  [image_path |-> IF first # None THEN first ELSE second,
         called |-> (IF call.gemini_key THEN <<<<"gemini", i>>>> ELSE <<>>)
                    \o <<<<"dalle", i>>>>]

\* the provider calls of one loop body: Gemini when its key is set, DALL-E
\* when there is no image yet; `called` lists the calls made, in order
try_providers(call, i, size) ==
    LET first == IF call.gemini_key
                 THEN generate_with_gemini(call, i, size) ELSE None
    IN  IF first # None
        THEN [image_path |-> first, called |-> <<<<"gemini", i>>>>]
        ELSE [image_path |-> generate_with_dalle(call, i, size),
              called |-> (IF call.gemini_key THEN <<<<"gemini", i>>>> ELSE <<>>)
                         \o <<<<"dalle", i>>>>]

\* the loop of generate_images from prompt i on; `called` is the list of the
\* provider and placeholder calls made so far
RECURSIVE generate_images_from(_, _, _, _)
generate_images_from(call, i, image_paths, called) ==
    IF i > Len(call.prompts)
    THEN [raised |-> None, paths |-> image_paths, called |-> called]
    ELSE LET size == get_image_size(call.video_format)
             tried == try_providers(call, i, size)
             image_path == tried.image_path
             calls == called \o tried.called
         IN  IF image_path # None
             THEN generate_images_from(call, i + 1,
                                       Append(image_paths, image_path[1]), calls)
             ELSE LET handled == PlaceholderOnFailure(image_paths, i, call.video_format)
                      withPlaceholder == Append(calls, <<"placeholder", i>>)
                  IN  IF handled = None
                      THEN [raised |-> Some("KeyError"), paths |-> <<>>,
                            called |-> withPlaceholder]
                      ELSE generate_images_from(call, i + 1, handled[1],
                                                withPlaceholder)

generate_images(call) == generate_images_from(call, 1, <<>>, <<>>)

\* -------------------------------------------------- narration_generator.py
\* the voice names generate_narration is called with
VoiceNames == {"Sarah", "James", "Zara", "Bella"}

\* the calls of generate_narration: the voice, whether the elevenlabs package
\* imports, whether ELEVENLABS_API_KEY is set, and whether the ElevenLabs
\* request and the OpenAI request would succeed
NarrationCalls ==
    [script : {"script"}, voice_name : VoiceNames,
     ELEVENLABS_AVAILABLE : BOOLEAN, ELEVENLABS_API_KEY : BOOLEAN,
     elevenlabs_ok : BOOLEAN, openai_ok : BOOLEAN]

\* NarrationGenerator.__init__
use_elevenlabs(call) == call.ELEVENLABS_AVAILABLE /\ call.ELEVENLABS_API_KEY

\* an unknown voice becomes 'Zara'; self.voices[voice_name] raises KeyError
\* when that is no key either; then the request
generate_with_elevenlabs(call) ==
    LET voice_name == IF call.voice_name \notin VOICE_TYPES THEN "Zara"
                      ELSE call.voice_name
    IN  IF voice_name \notin VOICE_TYPES
        THEN [raised |-> Some("KeyError"), path |-> None]
        ELSE IF call.elevenlabs_ok
             THEN [raised |-> None,
                   path |-> Some(<<"narration", voice_name, "elevenlabs">>)]
             ELSE [raised |-> Some("ElevenLabs error"), path |-> None]

generate_with_openai(call) ==
    IF call.openai_ok
    THEN [raised |-> None, path |-> Some(<<"narration", call.voice_name, "openai">>)]
    ELSE [raised |-> Some("OpenAI error"), path |-> None]

\* a mutant of generate_narration: the primary's exception is not caught
generate_narration_no_failover(call) ==
    IF use_elevenlabs(call)
    THEN generate_with_elevenlabs(call) @@ [called |-> <<"elevenlabs">>]
    ELSE generate_with_openai(call) @@ [called |-> <<"openai">>]

\* the outcome of generate_narration and the providers it called, in order
generate_narration(call) ==
    LET primary == IF use_elevenlabs(call)
                   THEN Some(generate_with_elevenlabs(call)) ELSE None
        tried == IF primary = None THEN <<>> ELSE <<"elevenlabs">>
    IN  IF primary # None /\ primary[1].raised = None
        THEN primary[1] @@ [called |-> tried]
        ELSE generate_with_openai(call) @@ [called |-> Append(tried, "openai")]

\* ------------------------------------------------------ prompt_generator.py
\* the bound on the number of prompts in a provider answer
MaxAnswer == 13

Max(a, b) == IF a >= b THEN a ELSE b
Min(a, b) == IF a <= b THEN a ELSE b

\* a script as the list script.split() gives: word k is the number k
Words(w) == [k \in 1..w |-> k]

ScriptWordCounts == {0, 2, 45, 70, 120, 400, 700}

\* what the chat completion does: it raises, or its content holds no JSON
\* array that parses, or it holds an array of some number of prompts
PromptAnswers ==
    {[kind |-> "raises", prompts |-> <<>>], [kind |-> "unparsable", prompts |-> <<>>]}
    \cup {[kind |-> "list",
           prompts |-> [k \in 1..n |-> [prompt |-> <<"ai", k>>, negative_prompt |-> "ai"]]]
          : n \in 0..MaxAnswer}

PromptCalls ==
    [script : {Words(w) : w \in ScriptWordCounts}, style : {"Anime"},
     answer : PromptAnswers]

calculate_image_count(script) ==
    LET word_count == Len(script)
    IN  IF word_count < 100 THEN Max(3, Min(5, word_count \div 20 + 2))
        ELSE IF word_count < 300 THEN Max(5, Min(7, word_count \div 40 + 3))
        ELSE IF word_count < 500 THEN Max(7, Min(10, word_count \div 50 + 4))
        ELSE Max(10, Min(12, word_count \div 60 + 5))

\* words[start:end] with Python's 0-based, end-exclusive, clipped slice
Slice(words, start, end) ==
    SubSeq(words, Min(start, Len(words)) + 1, Min(end, Len(words)))

\* a mutant of default_prompt: the last chunk is as long as the others
default_prompt_fixed_size(words, style, image_count, i) ==
    LET chunk_size == Max(1, Len(words) \div image_count)
        start == i * chunk_size
        end == start + chunk_size
    IN  [prompt |-> <<"first 100 characters of", Slice(words, start, end),
                      "in", style, "style">>,
         negative_prompt |-> "default"]

\* prompt i (0-based) of the fallback: the first 100 characters of the chunk,
\* then the style template
default_prompt(words, style, image_count, i) ==
    LET chunk_size == Max(1, Len(words) \div image_count)
        start == i * chunk_size
        end == IF i < image_count - 1 THEN start + chunk_size ELSE Len(words)
    IN  [prompt |-> <<"first 100 characters of", Slice(words, start, end),
                      "in", style, "style">>,
         negative_prompt |-> "default"]

generate_default_prompts(script, style, image_count) ==
    [k \in 1..image_count |-> default_prompt(script, style, image_count, k - 1)]

\* a mutant of FitToCount: a short answer is returned as it is
FitToCountNoPadding(prompts, image_count) ==
    IF prompts = <<>> THEN None
    ELSE IF Len(prompts) > image_count THEN Some(SubSeq(prompts, 1, image_count))
    ELSE Some(prompts)

\* the length adjustment of a parsed answer; None when prompts[-1] raises
\* IndexError on an empty list
FitToCount(prompts, image_count) ==
    IF Len(prompts) < image_count
    THEN IF prompts = <<>> THEN None
         ELSE Some([k \in 1..image_count |->
                      IF k <= Len(prompts) THEN prompts[k] ELSE prompts[Len(prompts)]])
    ELSE IF Len(prompts) > image_count THEN Some(SubSeq(prompts, 1, image_count))
    ELSE Some(prompts)

\* every exception of the try block ends in the fallback
generate_prompts(call) ==
    LET image_count == calculate_image_count(call.script)
        parsed == IF call.answer.kind = "list"
                  THEN FitToCount(call.answer.prompts, image_count) ELSE None
    IN  IF parsed # None THEN [raised |-> None, prompts |-> parsed[1]]
        ELSE [raised |-> None,
              prompts |-> generate_default_prompts(call.script, call.style, image_count)]

\* ---------------------------------------------------- subtitle_generator.py
\* Seconds are counted in milliseconds: 0.8 s is 800, 5.0 s is 5000.  A
\* quotient is cut to the millisecond, and round(x, 2) is the nearest
\* multiple of 10 ms.  A text is the list of its words and of the single
\* spaces between them: a word is a positive number, a space is 0.
SPACE == 0
MaxWords == 20

\* the audio durations of the calls, in milliseconds
Durations == {1, 500, 1000, 1006, 2400, 7503, 12000, 90000}

round2(x) == ((x + 5) \div 10) * 10

\* ' '.join(words)
RECURSIVE join(_)
join(words) ==
    IF Len(words) <= 1 THEN words
    ELSE <<Head(words), SPACE>> \o join(Tail(words))

\* text.split()
split(text) == SelectSeq(text, LAMBDA c : c # SPACE)

\* sum(len(segment.split()) for segment in segments)
RECURSIVE SumLen(_)
SumLen(segments) ==
    IF segments = <<>> THEN 0
    ELSE Len(split(Head(segments))) + SumLen(Tail(segments))

\* the time given to a segment: its share of the audio by word count, kept
\* between 0.8 s and 5 s
SegmentDuration(word_count, total_words, total_duration) ==
    Max(800, Min(5000, (word_count * total_duration) \div total_words))

\* the loop of _calculate_timings from segment i on
RECURSIVE TimingsFrom(_, _, _, _, _)
TimingsFrom(segments, i, current_time, total_duration, timed_segments) ==
    IF i > Len(segments) THEN timed_segments
    ELSE LET duration == SegmentDuration(Len(split(segments[i])), SumLen(segments),
                                         total_duration)
             end_time == Min(current_time + duration, total_duration)
         IN  TimingsFrom(segments, i + 1, end_time, total_duration,
                         Append(timed_segments,
                                [text |-> segments[i],
                                 start_time |-> round2(current_time),
                                 end_time |-> round2(end_time)]))

calculate_timings(segments, total_duration) ==
    IF segments = <<>> THEN <<>>
    ELSE LET timed_segments == TimingsFrom(segments, 1, 0, total_duration, <<>>)
         IN  [timed_segments EXCEPT ![Len(timed_segments)].end_time = total_duration]

\* a mutant of SegmentsOfSix: each segment starts 6 words on but holds 5
SegmentsOfFive(words) ==
    [k \in 1..((Len(words) + 5) \div 6) |->
        join(Slice(words, 6 * (k - 1), 6 * (k - 1) + 5))]

\* words[i:i+6] for i in range(0, len(words), 6)
SegmentsOfSix(words) ==
    [k \in 1..((Len(words) + 5) \div 6) |->
        join(Slice(words, 6 * (k - 1), 6 * (k - 1) + 6))]

fallback_segmentation(script, audio_duration) ==
    calculate_timings(SegmentsOfSix(script), audio_duration)

\* the subtitle calls: a script of up to MaxWords words and an audio duration
SubtitleCalls == [script : {Words(w) : w \in 0..MaxWords}, audio_duration : Durations]

\* ------------------------------------- _calculate_image_count, called alone
MaxScriptWords == 700

\* the scripts of the calls: every word count up to MaxScriptWords
CountCalls == [script : {Words(w) : w \in 0..MaxScriptWords}]

\* ---------------------------------------- _calculate_timings, called alone
MaxSegments == 5

\* the word counts of the segments the segmenters hand over: a one-word
\* sentence, a short one, a full fallback chunk and a long sentence
SegmentWordCounts == {1, 3, 6, 12}

\* the segment lists of the calls: up to MaxSegments texts of these sizes
SegmentLists ==
    UNION {[1..n -> {join(Words(w)) : w \in SegmentWordCounts}] : n \in 1..MaxSegments}

\* the audio durations of these calls, in milliseconds
TimingDurations == {1006, 3000, 12000, 90000}

TimingCalls == [segments : SegmentLists, total_duration : TimingDurations]

\* ------------------------------------------- the queue operations, called
\* a mutant of UpdateJobCall: an unknown identifier is passed over in silence
update_job_ignores_unknown(data, job_id, updates) ==
    IF ~HasJob(data, job_id)
    THEN [raised |-> None, data |-> data]
    ELSE [raised |-> None, data |-> update_job(data, job_id, updates)]

\* a mutant of UpdateJobCall: the fields are written to every job
update_job_every_job(data, job_id, updates) ==
    IF ~HasJob(data, job_id)
    THEN [raised |-> Some("Job not found"), data |-> data]
    ELSE [raised |-> None,
          data |-> [data EXCEPT !.jobs =
                        [k \in 1..Len(data.jobs) |-> updates @@ data.jobs[k]]]]

\* update_job as a call: what it raises and the file it leaves
UpdateJobCall(data, job_id, updates) ==
    IF ~HasJob(data, job_id)
    THEN [raised |-> Some("Job not found"), data |-> data]
    ELSE [raised |-> None, data |-> update_job(data, job_id, updates)]

\* GET /api/job-status/{job_id}: the response
job_status(data, job_id) ==
    LET j == get_job(data, job_id)
    IN  IF j = None
        THEN [status_code |-> 404, detail |-> "Job not found"]
        ELSE [status_code |-> 200,
              content |-> IF j[1].status = QUEUED
                          THEN [queue_position |-> get_queue_position(data, job_id)]
                               @@ j[1]
                          ELSE j[1]]

\* the identifiers a caller passes: the issued ones and ones never issued
CallerIds == 1..(MaxJobs + 1)

\* the `updates` a caller passes at time t: those of the worker
CallerUpdates(t) ==
    {[status |-> PROCESSING, progress |-> 5,
      message |-> <<"Starting video generation...">>, started_at |-> Some(t)],
     [progress |-> 15, message |-> <<"Generating narration...">>],
     [status |-> COMPLETED, progress |-> 100,
      message |-> <<"Video generation complete!">>,
      completed_at |-> Some(t), result |-> Some([id |-> 1])],
     [status |-> FAILED, message |-> <<"Error: ", "render failed">>,
      completed_at |-> Some(t), error |-> Some(<<"Traceback", "render failed">>)]}

\* --------------------------------------------- the file while it is written
\* the file between open(queue_file, 'w'), which empties it, and the end of
\* json.dump
TRUNCATED == [truncated |-> TRUE]

\* _load_queue: json.load raises JSONDecodeError on the emptied file and the
\* except clause returns an empty store
load_queue(file) == IF file = TRUNCATED THEN EmptyStore ELSE file

\* ------------------------------------------------------------- database.py
\* the default of get_all_videos' parameter `limit`
DefaultLimit == 100

\* the largest number of rows the table is given when the catalog is studied
MaxCatalog == 102

\* SELECT * FROM videos WHERE id = ?: the row, or None
get_video(rows, video_id) ==
    IF \E k \in 1..Len(rows) : rows[k].id = video_id
    THEN Some(rows[CHOOSE k \in 1..Len(rows) : rows[k].id = video_id])
    ELSE None

\* SELECT * FROM videos ORDER BY created_at DESC LIMIT ? OFFSET ?: rows are
\* appended in the order of their created_at, so the newest is the last
get_all_videos(rows, limit, offset) ==
    LET newestFirst == [k \in 1..Len(rows) |-> rows[Len(rows) + 1 - k]]
        last == IF offset + limit < Len(rows) THEN offset + limit ELSE Len(rows)
    IN  SubSeq(newestFirst, offset + 1, last)

\* ------------------------------------------------------------------ app.py
\* GET /api/video/{video_id}
get_video_response(rows, video_id) ==
    LET video == get_video(rows, video_id)
    IN  IF video = None
        THEN [status |-> 404, detail |-> "Video not found"]
        ELSE [status |-> 200, content |-> video[1]]

\* GET /api/download/{video_id}: the record is looked for in what
\* pipeline.get_all_videos() returns, which is db.get_all_videos() with its
\* default limit and offset
download_video(rows, fs, video_id) ==
    LET all == get_all_videos(rows, DefaultLimit, 0)
        found == {k \in 1..Len(all) : all[k].id = video_id}
    IN  IF found = {}
        THEN [status |-> 404, detail |-> "Video not found"]
        ELSE LET video == all[CHOOSE k \in found : \A m \in found : k <= m]
             IN  IF video.path \notin fs
                 THEN [status |-> 404, detail |-> "Video file not found"]
                 ELSE [status |-> 200, path |-> video.path]

\* -------------------------------------------------------------------- Init
Init ==
    /\ store = EmptyStore
    /\ videos = <<>>
    /\ lastRowId = 0
    /\ now = 0
    /\ uuidCount = 0
    /\ impl \in Impls
    /\ running = FALSE
    /\ pc = "start"
    /\ job = None
    /\ result = None
    /\ exc = None
    /\ faults = 0
    /\ spc = "idle"
    /\ sdata = None
    /\ sjob = None
    /\ wdata = None
    /\ issued = <<>>
    /\ started = <<>>
    /\ runs = <<>>
    /\ stages = <<>>
    /\ args = None
    /\ ret = None
    /\ w2 = [pc |-> "start", running |-> FALSE, job |-> None, result |-> None,
             exc |-> None]
    /\ stopReq = FALSE
    /\ files = {}

\* ------------------------------------------------------ the submission path
\* create_video for a request that passes validation: add_job, taken as one step
CreateVideo ==
    /\ spc = "idle"
    /\ uuidCount < MaxJobs
    /\ \E video_data \in VideoRequest :
         store' = add_job(store, uuid4, video_data, now)
    /\ issued' = Append(issued, uuid4)
    /\ uuidCount' = uuidCount + 1
    /\ UNCHANGED <<runs, stages, args, ret>>
    /\ UNCHANGED <<videos, lastRowId, now, impl, files, w2, stopReq, running, pc, job, result, exc,
                   faults, spc, sdata, sjob, wdata, started>>

\* POST /api/create-video, the whole handler: the length check, add_job,
\* get_queue_position and the response
create_video ==
    /\ spc = "idle"
    /\ uuidCount < MaxJobs
    /\ \E video_data \in RequestBodies :
         /\ args' = Some(video_data)
         /\ IF TooLong(video_data)
            THEN /\ ret' = Some([status_code |-> 400])
                 /\ UNCHANGED <<store, issued, uuidCount>>
            ELSE /\ store' = add_job(store, uuid4, video_data, now)
                 /\ issued' = Append(issued, uuid4)
                 /\ uuidCount' = uuidCount + 1
                 /\ ret' = Some([status_code |-> 202, job_id |-> uuid4,
                                 queue_position |-> get_queue_position(store', uuid4),
                                 status |-> "queued"])
    /\ UNCHANGED <<videos, lastRowId, now, impl, files, w2, stopReq, running, pc, job, result, exc,
                   faults, spc, sdata, sjob, wdata, started, runs, stages>>

\* queue_manager.py cleanup --days N
CleanupJobs ==
    /\ \E days \in Days : store' = cleanup_old_jobs(store, days, now)
    /\ UNCHANGED <<runs, stages, args, ret>>
    /\ UNCHANGED <<videos, lastRowId, now, uuidCount, impl, files, w2, stopReq, running, pc, job,
                   result, exc, faults, spc, sdata, sjob, wdata, issued, started>>

\* the clock advances
Tick ==
    /\ now < MaxTime
    /\ now' = now + 1
    /\ UNCHANGED <<runs, stages, args, ret>>
    /\ UNCHANGED <<store, videos, lastRowId, uuidCount, impl, files, w2, stopReq, running, pc, job,
                   result, exc, faults, spc, sdata, sjob, wdata, issued, started>>

\* --------------------------------------------------------------- the worker
UpdatePcs == {"mark_processing", "progress", "mark_completed", "mark_failed"}

\* a mutant of UpdateFields: the final update leaves the result out
UpdateFieldsNoResult(p, t) ==
    CASE p = "mark_processing" ->
           [status |-> PROCESSING, progress |-> 5,
            message |-> <<"Starting video generation...">>, started_at |-> Some(t)]
      [] p = "progress" ->
           [progress |-> 15, message |-> <<"Generating narration...">>]
      [] p = "mark_completed" ->
           [status |-> COMPLETED, progress |-> 100,
            message |-> <<"Video generation complete!">>,
            completed_at |-> Some(t)]
      [] p = "mark_failed" ->
           [status |-> FAILED, message |-> <<"Error: ", exc[1]>>,
            completed_at |-> Some(t), error |-> Some(<<"Traceback", exc[1]>>)]

\* a mutant of UpdateFields: the claim leaves the status as it is
UpdateFieldsNoClaim(p, t) ==
    CASE p = "mark_processing" ->
           [progress |-> 5,
            message |-> <<"Starting video generation...">>, started_at |-> Some(t)]
      [] p = "progress" ->
           [progress |-> 15, message |-> <<"Generating narration...">>]
      [] p = "mark_completed" ->
           [status |-> COMPLETED, progress |-> 100,
            message |-> <<"Video generation complete!">>,
            completed_at |-> Some(t), result |-> result]
      [] p = "mark_failed" ->
           [status |-> FAILED, message |-> <<"Error: ", exc[1]>>,
            completed_at |-> Some(t), error |-> Some(<<"Traceback", exc[1]>>)]

\* a mutant of UpdateFields: the claim does not write started_at
UpdateFieldsNoStartedAt(p, t) ==
    CASE p = "mark_processing" ->
           [status |-> PROCESSING, progress |-> 5,
            message |-> <<"Starting video generation...">>]
      [] p = "progress" ->
           [progress |-> 15, message |-> <<"Generating narration...">>]
      [] p = "mark_completed" ->
           [status |-> COMPLETED, progress |-> 100,
            message |-> <<"Video generation complete!">>,
            completed_at |-> Some(t), result |-> result]
      [] p = "mark_failed" ->
           [status |-> FAILED, message |-> <<"Error: ", exc[1]>>,
            completed_at |-> Some(t), error |-> Some(<<"Traceback", exc[1]>>)]

\* a mutant of UpdateFields: a failed job is shown as finished
UpdateFieldsFailedAtHundred(p, t) ==
    CASE p = "mark_processing" ->
           [status |-> PROCESSING, progress |-> 5,
            message |-> <<"Starting video generation...">>, started_at |-> Some(t)]
      [] p = "progress" ->
           [progress |-> 15, message |-> <<"Generating narration...">>]
      [] p = "mark_completed" ->
           [status |-> COMPLETED, progress |-> 100,
            message |-> <<"Video generation complete!">>,
            completed_at |-> Some(t), result |-> result]
      [] p = "mark_failed" ->
           [status |-> FAILED, progress |-> 100, message |-> <<"Error: ", exc[1]>>,
            completed_at |-> Some(t), error |-> Some(<<"Traceback", exc[1]>>)]

\* the `updates` argument of each update_job call of the worker
UpdateFields(p, t) ==
    CASE p = "mark_processing" ->
           [status |-> PROCESSING, progress |-> 5,
            message |-> <<"Starting video generation...">>, started_at |-> Some(t)]
      [] p = "progress" ->
           [progress |-> 15, message |-> <<"Generating narration...">>]
      [] p = "mark_completed" ->
           [status |-> COMPLETED, progress |-> 100,
            message |-> <<"Video generation complete!">>,
            completed_at |-> Some(t), result |-> result]
      [] p = "mark_failed" ->
           [status |-> FAILED, message |-> <<"Error: ", exc[1]>>,
            completed_at |-> Some(t), error |-> Some(<<"Traceback", exc[1]>>)]

\* a mutant of AfterUpdate: the pipeline is not waited for
AfterUpdateDetached(p) ==
    CASE p = "mark_processing" -> "progress"
      [] p = "progress" -> "loop"
      [] p = "mark_completed" -> "loop"
      [] p = "mark_failed" -> "loop"

\* a mutant of AfterUpdate: the worker returns after a completed job
AfterUpdateReturns(p) ==
    CASE p = "mark_processing" -> "progress"
      [] p = "progress" -> "pipeline"
      [] p = "mark_completed" -> "stopped"
      [] p = "mark_failed" -> "loop"

\* a mutant of AfterUpdate: the worker returns after a failed job
AfterUpdateStopsOnFailure(p) ==
    CASE p = "mark_processing" -> "progress"
      [] p = "progress" -> "pipeline"
      [] p = "mark_completed" -> "loop"
      [] p = "mark_failed" -> "stopped"

\* where the worker goes when the update_job call at p returns
AfterUpdate(p) ==
    CASE p = "mark_processing" -> "progress"
      [] p = "progress" -> "pipeline"
      [] p = "mark_completed" -> "loop"
      [] p = "mark_failed" -> "loop"

\* the worker drops its locals when it leaves a job
LeaveJob == job' = None /\ result' = None /\ exc' = None

\* an exception that leaves the job's try block (or is raised by get_next_job):
\* background_worker catches it inside the loop, sleeps and goes on;
\* VideoWorker.run catches it outside the loop, clears running and returns
EscapeLoop ==
    /\ LeaveJob
    /\ IF impl = "app"
       THEN pc' = "sleep" /\ running' = running
       ELSE pc' = "stopped" /\ running' = FALSE

\* an exception e raised by the update_job call at p
UpdateRaised(p, e) ==
    IF p = "mark_failed"
    THEN EscapeLoop
    ELSE /\ pc' = "mark_failed"
         /\ exc' = Some(e)
         /\ UNCHANGED <<job, result, running>>

\* the update_job call at p returned
UpdateReturned(p) ==
    /\ pc' = AfterUpdate(p)
    /\ started' = IF p = "mark_processing" THEN Append(started, job[1].id) ELSE started
    /\ IF p \in {"mark_completed", "mark_failed"}
       THEN LeaveJob
       ELSE UNCHANGED <<job, result, exc>>
    /\ running' = running

\* one update_job call of the worker, taken as one step
UpdateStep(p) ==
    /\ IF HasJob(store, job[1].id)
       THEN /\ store' = update_job(store, job[1].id, UpdateFields(p, now))
            /\ UpdateReturned(p)
       ELSE /\ UpdateRaised(p, "Job not found")
            /\ UNCHANGED <<store, started>>
    /\ UNCHANGED <<runs, stages, args, ret>>
    /\ UNCHANGED <<videos, lastRowId, now, uuidCount, impl, files, w2, stopReq, faults, spc, sdata,
                   sjob, wdata, issued>>

WorkerStart ==
    /\ pc = "start"
    /\ running' = TRUE
    /\ pc' = "loop"
    /\ UNCHANGED <<runs, stages, args, ret>>
    /\ UNCHANGED <<store, videos, lastRowId, now, uuidCount, impl, files, w2, stopReq, job, result,
                   exc, faults, spc, sdata, sjob, wdata, issued, started>>

\* while worker_running
WorkerLoop ==
    /\ pc = "loop"
    /\ pc' = IF running THEN "poll" ELSE "stopped"
    /\ UNCHANGED <<runs, stages, args, ret>>
    /\ UNCHANGED <<store, videos, lastRowId, now, uuidCount, impl, files, w2, stopReq, running, job,
                   result, exc, faults, spc, sdata, sjob, wdata, issued, started>>

\* job = get_next_job(); if job: ... else: sleep
WorkerPoll ==
    /\ pc = "poll"
    /\ job' = get_next_job(store)
    /\ pc' = IF job' # None THEN "mark_processing" ELSE "sleep"
    /\ UNCHANGED <<runs, stages, args, ret>>
    /\ UNCHANGED <<store, videos, lastRowId, now, uuidCount, impl, files, w2, stopReq, running,
                   result, exc, faults, spc, sdata, sjob, wdata, issued, started>>

WorkerSleep ==
    /\ pc = "sleep"
    /\ pc' = "loop"
    /\ UNCHANGED <<runs, stages, args, ret>>
    /\ UNCHANGED <<store, videos, lastRowId, now, uuidCount, impl, files, w2, stopReq, running, job,
                   result, exc, faults, spc, sdata, sjob, wdata, issued, started>>

MarkProcessing ==
    /\ pc = "mark_processing"
    /\ UpdateStep(pc)

UpdateProgress ==
    /\ pc = "progress"
    /\ UpdateStep(pc)

MarkCompleted ==
    /\ pc = "mark_completed"
    /\ UpdateStep(pc)

MarkFailed ==
    /\ pc = "mark_failed"
    /\ UpdateStep(pc)

\* generate_video returns: the record is in the table and carries its row id
PipelineReturns ==
    /\ pc = "pipeline"
    /\ lastRowId' = NextRowId(videos, lastRowId)
    /\ result' = Some(VideoMetadata(job[1].video_data, lastRowId'))
    /\ files' = files \cup {output_path(job[1].video_data.title)}
    /\ videos' = Append(videos, result'[1])
    /\ runs' = Append(runs, [job |-> job[1].id, video |-> Some(lastRowId')])
    /\ pc' = "mark_completed"
    /\ UNCHANGED <<stages, args, ret>>
    /\ UNCHANGED <<store, now, uuidCount, impl, w2, stopReq, running, job, exc, faults, spc,
                   sdata, sjob, wdata, issued, started>>

\* generate_video raises: no record is written
PipelineRaises ==
    /\ pc = "pipeline"
    /\ \E e \in PipelineErrors : exc' = Some(e)
    /\ runs' = Append(runs, [job |-> job[1].id, video |-> None])
    /\ pc' = "mark_failed"
    /\ UNCHANGED <<stages, args, ret>>
    /\ UNCHANGED <<store, videos, lastRowId, now, uuidCount, impl, files, w2, stopReq, running, job,
                   result, faults, spc, sdata, sjob, wdata, issued, started>>

\* ------------------------------------- generate_video, statement by statement
\* the call at p returns; `name` is the stage it completes
StageReturns(p, name) ==
    /\ pc = p
    /\ stages' = IF p = "pipeline" THEN <<name>> ELSE Append(stages, name)
    /\ pc' = AfterStage(p)
    /\ files' = IF name = "compose"
                THEN files \cup {output_path(job[1].video_data.title)}
                ELSE files
    /\ UNCHANGED <<videos, lastRowId, result, exc, runs>>

\* the call at p raises: generate_video's except clause re-raises, and the
\* worker's except clause takes it
StageRaises(p) ==
    /\ pc = p
    /\ \E e \in PipelineErrors : exc' = Some(e)
    /\ runs' = Append(runs, [job |-> job[1].id, video |-> None])
    /\ stages' = IF p = "pipeline" THEN <<>> ELSE stages
    /\ pc' = "mark_failed"
    /\ UNCHANGED <<videos, lastRowId, result, files>>

GenerateNarration ==
    /\ StageReturns("pipeline", "narration") \/ StageRaises("pipeline")
    /\ UNCHANGED <<store, now, uuidCount, impl, w2, stopReq, running, job, faults, spc, sdata,
                   sjob, wdata, issued, started, args, ret>>

GeneratePrompts ==
    /\ StageReturns("prompts", "prompts") \/ StageRaises("prompts")
    /\ UNCHANGED <<store, now, uuidCount, impl, w2, stopReq, running, job, faults, spc, sdata,
                   sjob, wdata, issued, started, args, ret>>

GenerateImages ==
    /\ StageReturns("images", "images") \/ StageRaises("images")
    /\ UNCHANGED <<store, now, uuidCount, impl, w2, stopReq, running, job, faults, spc, sdata,
                   sjob, wdata, issued, started, args, ret>>

ComposeVideo ==
    /\ StageReturns("compose", "compose") \/ StageRaises("compose")
    /\ UNCHANGED <<store, now, uuidCount, impl, w2, stopReq, running, job, faults, spc, sdata,
                   sjob, wdata, issued, started, args, ret>>

\* db.add_video and the return of generate_video
AddVideo ==
    /\ \/ /\ pc = "add_video"
          /\ lastRowId' = NextRowId(videos, lastRowId)
          /\ result' = Some(VideoMetadata(job[1].video_data, lastRowId'))
          /\ videos' = Append(videos, result'[1])
          /\ runs' = Append(runs, [job |-> job[1].id, video |-> Some(lastRowId')])
          /\ pc' = "mark_completed"
          /\ UNCHANGED <<stages, exc, files>>
       \/ StageRaises("add_video")
    /\ UNCHANGED <<store, now, uuidCount, impl, w2, stopReq, running, job, faults, spc, sdata,
                   sjob, wdata, issued, started, args, ret>>

\* DELETE /api/video/{video_id} for a video the table has: the file at the
\* record's path is unlinked if it exists, then the row is deleted
DeleteVideo ==
    /\ \E k \in 1..Len(videos) :
         /\ files' = files \ {videos[k].path}
         /\ videos' = SubSeq(videos, 1, k - 1)
                          \o SubSeq(videos, k + 1, Len(videos))
    /\ UNCHANGED <<store, lastRowId, now, uuidCount, impl, w2, stopReq, running, pc, job,
                   result, exc, faults, spc, sdata, sjob, wdata, issued, started,
                   runs, stages, args, ret>>

\* ----------------------------------------------------------- calls under study
\* one call of ImageGenerator.generate_images
CallGenerateImages ==
    /\ ret = None
    /\ \E call \in ImageCalls :
         /\ args' = Some(call)
         /\ ret' = Some(generate_images(call))
    /\ UNCHANGED <<store, videos, lastRowId, now, uuidCount, impl, files, w2, stopReq, running, pc,
                   job, result, exc, faults, spc, sdata, sjob, wdata, issued,
                   started, runs, stages>>

\* one call of NarrationGenerator.generate_narration
CallGenerateNarration ==
    /\ ret = None
    /\ \E call \in NarrationCalls :
         /\ args' = Some(call)
         /\ ret' = Some(generate_narration(call))
    /\ UNCHANGED <<store, videos, lastRowId, now, uuidCount, impl, files, w2, stopReq, running, pc,
                   job, result, exc, faults, spc, sdata, sjob, wdata, issued,
                   started, runs, stages>>

\* one call of ImagePromptGenerator.generate_prompts
CallGeneratePrompts ==
    /\ ret = None
    /\ \E call \in PromptCalls :
         /\ args' = Some(call)
         /\ ret' = Some(generate_prompts(call))
    /\ UNCHANGED <<store, videos, lastRowId, now, uuidCount, impl, files, w2, stopReq, running, pc,
                   job, result, exc, faults, spc, sdata, sjob, wdata, issued,
                   started, runs, stages>>

\* one call of SubtitleGenerator._fallback_segmentation
CallFallbackSegmentation ==
    /\ ret = None
    /\ \E call \in SubtitleCalls :
         /\ args' = Some(call)
         /\ ret' = Some(fallback_segmentation(call.script, call.audio_duration))
    /\ UNCHANGED <<store, videos, lastRowId, now, uuidCount, impl, files, w2, stopReq, running, pc,
                   job, result, exc, faults, spc, sdata, sjob, wdata, issued,
                   started, runs, stages>>

\* one call of update_job from outside the worker, with any identifier
CallUpdateJob ==
    /\ ret = None
    /\ \E job_id \in CallerIds, updates \in CallerUpdates(now) :
         LET out == UpdateJobCall(store, job_id, updates)
         IN  /\ args' = Some([op |-> "update_job", job_id |-> job_id,
                              updates |-> updates])
             /\ store' = out.data
             /\ ret' = Some([raised |-> out.raised])
    /\ UNCHANGED <<videos, lastRowId, now, uuidCount, impl, files, w2, stopReq, running, pc, job,
                   result, exc, faults, spc, sdata, sjob, wdata, issued,
                   started, runs, stages>>

\* one call of get_next_job from outside the worker
CallGetNextJob ==
    /\ ret = None
    /\ args' = Some([op |-> "get_next_job"])
    /\ ret' = Some([raised |-> None, value |-> get_next_job(store)])
    /\ UNCHANGED <<store, videos, lastRowId, now, uuidCount, impl, files, w2, stopReq, running, pc,
                   job, result, exc, faults, spc, sdata, sjob, wdata, issued,
                   started, runs, stages>>

\* one request GET /api/job-status/{job_id}, with any identifier
GetJobStatus ==
    /\ ret = None
    /\ \E job_id \in CallerIds :
         /\ args' = Some([op |-> "job_status", job_id |-> job_id])
         /\ ret' = Some(job_status(store, job_id))
    /\ UNCHANGED <<store, videos, lastRowId, now, uuidCount, impl, files, w2, stopReq, running, pc,
                   job, result, exc, faults, spc, sdata, sjob, wdata, issued,
                   started, runs, stages>>

\* ------------------------------------------- a second worker on the store
\* a mutant of W2UpdateFields: the second worker's failure update leaves the
\* status as it is
W2UpdateFieldsKeepStatus(p, t) ==
    CASE p = "mark_processing" ->
           [status |-> PROCESSING, progress |-> 5,
            message |-> <<"Starting video generation...">>, started_at |-> Some(t)]
      [] p = "progress" ->
           [progress |-> 15, message |-> <<"Generating narration...">>]
      [] p = "mark_completed" ->
           [status |-> COMPLETED, progress |-> 100,
            message |-> <<"Video generation complete!">>,
            completed_at |-> Some(t), result |-> w2.result]
      [] p = "mark_failed" ->
           [message |-> <<"Error: ", w2.exc[1]>>,
            completed_at |-> Some(t), error |-> Some(<<"Traceback", w2.exc[1]>>)]

\* the `updates` argument of each update_job call of process_job
W2UpdateFields(p, t) ==
    CASE p = "mark_processing" ->
           [status |-> PROCESSING, progress |-> 5,
            message |-> <<"Starting video generation...">>, started_at |-> Some(t)]
      [] p = "progress" ->
           [progress |-> 15, message |-> <<"Generating narration...">>]
      [] p = "mark_completed" ->
           [status |-> COMPLETED, progress |-> 100,
            message |-> <<"Video generation complete!">>,
            completed_at |-> Some(t), result |-> w2.result]
      [] p = "mark_failed" ->
           [status |-> FAILED, message |-> <<"Error: ", w2.exc[1]>>,
            completed_at |-> Some(t), error |-> Some(<<"Traceback", w2.exc[1]>>)]

\* VideoWorker.run: self.running = True
W2Start ==
    /\ w2.pc = "start"
    /\ w2' = [w2 EXCEPT !.running = TRUE, !.pc = "loop"]
    /\ UNCHANGED <<store, videos, lastRowId, now, uuidCount, impl, files, stopReq, running, pc,
                   job, result, exc, faults, spc, sdata, sjob, wdata, issued,
                   started, runs, stages, args, ret>>

\* while self.running
W2Loop ==
    /\ w2.pc = "loop"
    /\ w2' = [w2 EXCEPT !.pc = IF w2.running THEN "poll" ELSE "stopped"]
    /\ UNCHANGED <<store, videos, lastRowId, now, uuidCount, impl, files, stopReq, running, pc,
                   job, result, exc, faults, spc, sdata, sjob, wdata, issued,
                   started, runs, stages, args, ret>>

\* job = self.queue.get_next_job(); if job: process_job(job) else: sleep
W2Poll ==
    /\ w2.pc = "poll"
    /\ LET j == get_next_job(store)
       IN  w2' = [w2 EXCEPT !.job = j,
                            !.pc = IF j # None THEN "mark_processing" ELSE "sleep"]
    /\ UNCHANGED <<store, videos, lastRowId, now, uuidCount, impl, files, stopReq, running, pc,
                   job, result, exc, faults, spc, sdata, sjob, wdata, issued,
                   started, runs, stages, args, ret>>

W2Sleep ==
    /\ w2.pc = "sleep"
    /\ w2' = [w2 EXCEPT !.pc = "loop"]
    /\ UNCHANGED <<store, videos, lastRowId, now, uuidCount, impl, files, stopReq, running, pc,
                   job, result, exc, faults, spc, sdata, sjob, wdata, issued,
                   started, runs, stages, args, ret>>

\* one update_job call of process_job, taken as one step; a ValueError goes to
\* the except handler of process_job, or out of run when the handler raised it
W2UpdateStep(p) ==
    /\ IF HasJob(store, w2.job[1].id)
       THEN /\ store' = update_job(store, w2.job[1].id, W2UpdateFields(p, now))
            /\ started' = IF p = "mark_processing"
                          THEN Append(started, w2.job[1].id) ELSE started
            /\ w2' = IF p \in {"mark_completed", "mark_failed"}
                     THEN [w2 EXCEPT !.pc = AfterUpdate(p), !.job = None,
                                     !.result = None, !.exc = None]
                     ELSE [w2 EXCEPT !.pc = AfterUpdate(p)]
       ELSE /\ w2' = IF p = "mark_failed"
                     THEN [w2 EXCEPT !.pc = "stopped", !.running = FALSE,
                                     !.job = None, !.result = None, !.exc = None]
                     ELSE [w2 EXCEPT !.pc = "mark_failed",
                                     !.exc = Some("Job not found")]
            /\ UNCHANGED <<store, started>>
    /\ UNCHANGED <<videos, lastRowId, now, uuidCount, impl, files, stopReq, running, pc, job,
                   result, exc, faults, spc, sdata, sjob, wdata, issued, runs,
                   stages, args, ret>>

W2MarkProcessing ==
    /\ w2.pc = "mark_processing"
    /\ W2UpdateStep(w2.pc)

W2UpdateProgress ==
    /\ w2.pc = "progress"
    /\ W2UpdateStep(w2.pc)

W2MarkCompleted ==
    /\ w2.pc = "mark_completed"
    /\ W2UpdateStep(w2.pc)

W2MarkFailed ==
    /\ w2.pc = "mark_failed"
    /\ W2UpdateStep(w2.pc)

\* the second worker's generate_video returns
W2PipelineReturns ==
    /\ w2.pc = "pipeline"
    /\ lastRowId' = NextRowId(videos, lastRowId)
    /\ LET r == VideoMetadata(w2.job[1].video_data, lastRowId')
       IN  /\ w2' = [w2 EXCEPT !.result = Some(r), !.pc = "mark_completed"]
           /\ videos' = Append(videos, r)
           /\ files' = files \cup {r.path}
    /\ runs' = Append(runs, [job |-> w2.job[1].id, video |-> Some(lastRowId')])
    /\ UNCHANGED <<store, now, uuidCount, impl, stopReq, running, pc, job, result, exc,
                   faults, spc, sdata, sjob, wdata, issued, started, stages,
                   args, ret>>

\* the second worker's generate_video raises
W2PipelineRaises ==
    /\ w2.pc = "pipeline"
    /\ \E e \in PipelineErrors :
         w2' = [w2 EXCEPT !.exc = Some(e), !.pc = "mark_failed"]
    /\ runs' = Append(runs, [job |-> w2.job[1].id, video |-> None])
    /\ UNCHANGED <<store, videos, lastRowId, now, uuidCount, impl, files, stopReq, running, pc,
                   job, result, exc, faults, spc, sdata, sjob, wdata, issued,
                   started, stages, args, ret>>

\* one call of SubtitleGenerator._calculate_timings
CallCalculateTimings ==
    /\ ret = None
    /\ \E call \in TimingCalls :
         /\ args' = Some(call)
         /\ ret' = Some(calculate_timings(call.segments, call.total_duration))
    /\ UNCHANGED <<store, videos, lastRowId, now, uuidCount, impl, files, w2, stopReq, running, pc,
                   job, result, exc, faults, spc, sdata, sjob, wdata, issued,
                   started, runs, stages>>

\* one call of ImagePromptGenerator._calculate_image_count
CallCalculateImageCount ==
    /\ ret = None
    /\ \E call \in CountCalls :
         /\ args' = Some(call)
         /\ ret' = Some(calculate_image_count(call.script))
    /\ UNCHANGED <<store, videos, lastRowId, now, uuidCount, impl, files, w2, stopReq, running, pc,
                   job, result, exc, faults, spc, sdata, sjob, wdata, issued,
                   started, runs, stages>>

\* one call of ImagePromptGenerator._generate_default_prompts with no
\* image_count given: the count is computed from the script
CallGenerateDefaultPrompts ==
    /\ ret = None
    /\ \E call \in CountCalls, style \in {"Anime"} :
         /\ args' = Some([script |-> call.script, style |-> style,
                          image_count |-> None])
         /\ ret' = Some(generate_default_prompts(call.script, style,
                            calculate_image_count(call.script)))
    /\ UNCHANGED <<store, videos, lastRowId, now, uuidCount, impl, files, w2, stopReq, running, pc,
                   job, result, exc, faults, spc, sdata, sjob, wdata, issued,
                   started, runs, stages>>

\* lifespan's shutdown (worker_running = False) or VideoWorker.stop(): the
\* flag is cleared, whatever the worker is doing, also before its first
\* statement has run
StopWorker ==
    /\ ~stopReq
    /\ stopReq' = TRUE
    /\ running' = FALSE
    /\ UNCHANGED <<store, videos, lastRowId, now, uuidCount, impl, files, w2, pc, job,
                   result, exc, faults, spc, sdata, sjob, wdata, issued,
                   started, runs, stages, args, ret>>

\* after the shutdown the application's process exits: the worker thread is
\* a daemon thread (app.py 35) and ends wherever it is
ProcessExit ==
    /\ stopReq
    /\ impl = "app"
    /\ pc \notin {"stopped", "dead"}
    /\ pc' = "dead"
    /\ LeaveJob
    /\ UNCHANGED <<store, videos, lastRowId, now, uuidCount, impl, files, w2, stopReq,
                   running, faults, spc, sdata, sjob, wdata, issued, started,
                   runs, stages, args, ret>>

\* the process terminates, wherever the worker is, and a new process with a
\* new worker starts on the same file; faults counts the terminations
Restart ==
    /\ pc # "start"
    /\ faults < MaxFaults
    /\ faults' = faults + 1
    /\ pc' = "start"
    /\ running' = FALSE
    /\ LeaveJob
    /\ UNCHANGED <<store, videos, lastRowId, now, uuidCount, impl, files, w2, stopReq,
                   spc, sdata, sjob, wdata, issued, started, runs, stages,
                   args, ret>>

\* one completed run of generate_video for a request, outside the worker:
\* the file is rendered and the record inserted
GenerateVideo ==
    /\ ret = None
    /\ Len(videos) < MaxCatalog
    /\ \E video_data \in VideoRequest :
         /\ lastRowId' = NextRowId(videos, lastRowId)
         /\ videos' = Append(videos, VideoMetadata(video_data, lastRowId'))
         /\ files' = files \cup {output_path(video_data.title)}
    /\ UNCHANGED <<store, now, uuidCount, impl, w2, stopReq, running, pc, job,
                   result, exc, faults, spc, sdata, sjob, wdata, issued,
                   started, runs, stages, args, ret>>

\* one request GET /api/video/{video_id}, with any identifier
GetVideo ==
    /\ ret = None
    /\ \E video_id \in 1..(Len(videos) + 1) :
         /\ args' = Some([op |-> "get_video", video_id |-> video_id])
         /\ ret' = Some(get_video_response(videos, video_id))
    /\ UNCHANGED <<store, videos, lastRowId, now, uuidCount, impl, files, w2,
                   stopReq, running, pc, job, result, exc, faults, spc, sdata,
                   sjob, wdata, issued, started, runs, stages>>

\* one request GET /api/download/{video_id}, with any identifier
DownloadVideo ==
    /\ ret = None
    /\ \E video_id \in 1..(Len(videos) + 1) :
         /\ args' = Some([op |-> "download_video", video_id |-> video_id])
         /\ ret' = Some(download_video(videos, files, video_id))
    /\ UNCHANGED <<store, videos, lastRowId, now, uuidCount, impl, files, w2,
                   stopReq, running, pc, job, result, exc, faults, spc, sdata,
                   sjob, wdata, issued, started, runs, stages>>

WorkerStep ==
    \/ WorkerStart
    \/ WorkerLoop
    \/ WorkerPoll
    \/ WorkerSleep
    \/ MarkProcessing
    \/ UpdateProgress
    \/ PipelineReturns
    \/ PipelineRaises
    \/ MarkCompleted
    \/ MarkFailed

\* ------------------------------------------- the operations, step by step
\* add_job up to its _save_queue: the identifier is drawn, the file is loaded
\* and the job is put into the loaded copy
SubmitLoad ==
    /\ spc = "idle"
    /\ uuidCount < MaxJobs
    /\ \E video_data \in VideoRequest :
         sdata' = Some(add_job(store, uuid4, video_data, now))
    /\ sjob' = Some(uuid4)
    /\ uuidCount' = uuidCount + 1
    /\ spc' = "loaded"
    /\ UNCHANGED <<runs, stages, args, ret>>
    /\ UNCHANGED <<store, videos, lastRowId, now, impl, files, w2, stopReq, running, pc, job, result,
                   exc, faults, wdata, issued, started>>

\* add_job's _save_queue and return
SubmitSave ==
    /\ spc = "loaded"
    /\ store' = sdata[1]
    /\ issued' = Append(issued, sjob[1])
    /\ spc' = "idle"
    /\ sdata' = None
    /\ sjob' = None
    /\ UNCHANGED <<runs, stages, args, ret>>
    /\ UNCHANGED <<videos, lastRowId, now, uuidCount, impl, files, w2, stopReq, running, pc, job,
                   result, exc, faults, wdata, started>>

\* the worker's update_job up to its _save_queue
UpdateLoad ==
    /\ pc \in UpdatePcs
    /\ wdata = None
    /\ IF HasJob(store, job[1].id)
       THEN /\ wdata' = Some(update_job(store, job[1].id, UpdateFields(pc, now)))
            /\ UNCHANGED <<pc, job, result, exc, running>>
       ELSE /\ UpdateRaised(pc, "Job not found")
            /\ wdata' = None
    /\ UNCHANGED <<runs, stages, args, ret>>
    /\ UNCHANGED <<store, videos, lastRowId, now, uuidCount, impl, files, w2, stopReq, faults, spc,
                   sdata, sjob, issued, started>>

\* the worker's _save_queue and return from update_job
UpdateSave ==
    /\ pc \in UpdatePcs
    /\ wdata # None
    /\ store' = wdata[1]
    /\ wdata' = None
    /\ UpdateReturned(pc)
    /\ UNCHANGED <<runs, stages, args, ret>>
    /\ UNCHANGED <<videos, lastRowId, now, uuidCount, impl, files, w2, stopReq, faults, spc, sdata,
                   sjob, issued>>

\* ------------------------- the operations with the save in its two steps
\* add_job up to its _save_queue, reading the file as it is at that moment
TornSubmitLoad ==
    /\ spc = "idle"
    /\ uuidCount < MaxJobs
    /\ \E video_data \in VideoRequest :
         sdata' = Some(add_job(load_queue(store), uuid4, video_data, now))
    /\ sjob' = Some(uuid4)
    /\ uuidCount' = uuidCount + 1
    /\ spc' = "loaded"
    /\ UNCHANGED <<store, videos, lastRowId, now, impl, files, w2, stopReq, running, pc,
                   job, result, exc, faults, wdata, issued, started, runs,
                   stages, args, ret>>

\* add_job's _save_queue: open(queue_file, 'w')
SubmitTruncate ==
    /\ spc = "loaded"
    /\ store' = TRUNCATED
    /\ spc' = "truncated"
    /\ UNCHANGED <<videos, lastRowId, now, uuidCount, impl, files, w2, stopReq, running,
                   pc, job, result, exc, faults, sdata, sjob, wdata, issued,
                   started, runs, stages, args, ret>>

\* add_job's _save_queue: json.dump, close and return
SubmitWrite ==
    /\ spc = "truncated"
    /\ store' = sdata[1]
    /\ issued' = Append(issued, sjob[1])
    /\ spc' = "idle"
    /\ sdata' = None
    /\ sjob' = None
    /\ UNCHANGED <<videos, lastRowId, now, uuidCount, impl, files, w2, stopReq, running,
                   pc, job, result, exc, faults, wdata, started, runs, stages,
                   args, ret>>

\* the worker's get_next_job, reading the file as it is at that moment
TornWorkerPoll ==
    /\ pc = "poll"
    /\ job' = get_next_job(load_queue(store))
    /\ pc' = IF job' # None THEN "mark_processing" ELSE "sleep"
    /\ UNCHANGED <<store, videos, lastRowId, now, uuidCount, impl, files, w2, stopReq,
                   running, result, exc, faults, spc, sdata, sjob, wdata,
                   issued, started, runs, stages, args, ret>>

\* the worker's update_job up to its _save_queue; wdata holds the loaded and
\* updated copy
TornUpdateLoad ==
    /\ pc \in UpdatePcs
    /\ wdata = None
    /\ IF HasJob(load_queue(store), job[1].id)
       THEN /\ wdata' = Some(update_job(load_queue(store), job[1].id,
                                        UpdateFields(pc, now)))
            /\ UNCHANGED <<pc, job, result, exc, running>>
       ELSE /\ UpdateRaised(pc, "Job not found")
            /\ wdata' = None
    /\ UNCHANGED <<store, videos, lastRowId, now, uuidCount, impl, files, w2, stopReq,
                   faults, spc, sdata, sjob, issued, started, runs, stages,
                   args, ret>>

\* the worker's _save_queue: open(queue_file, 'w'); the second element of
\* wdata marks that the file is open for writing
UpdateTruncate ==
    /\ pc \in UpdatePcs
    /\ wdata # None
    /\ Len(wdata) = 1
    /\ store' = TRUNCATED
    /\ wdata' = <<wdata[1], "open">>
    /\ UNCHANGED <<videos, lastRowId, now, uuidCount, impl, files, w2, stopReq, running,
                   pc, job, result, exc, faults, spc, sdata, sjob, issued,
                   started, runs, stages, args, ret>>

\* the worker's _save_queue: json.dump, close, and the return of update_job
UpdateWrite ==
    /\ pc \in UpdatePcs
    /\ wdata # None
    /\ Len(wdata) = 2
    /\ store' = wdata[1]
    /\ wdata' = None
    /\ UpdateReturned(pc)
    /\ UNCHANGED <<videos, lastRowId, now, uuidCount, impl, files, w2, stopReq, faults,
                   spc, sdata, sjob, issued, runs, stages, args, ret>>

\* ------------------------------------------------------------- I/O errors
\* get_next_job raises (the file cannot be opened or read)
PollRaises ==
    /\ pc = "poll"
    /\ faults < MaxFaults
    /\ faults' = faults + 1
    /\ EscapeLoop
    /\ UNCHANGED <<runs, stages, args, ret>>
    /\ UNCHANGED <<store, videos, lastRowId, now, uuidCount, impl, files, w2, stopReq, spc, sdata,
                   sjob, wdata, issued, started>>

\* an update_job call of the worker raises before it wrote anything
UpdateRaises ==
    /\ pc \in UpdatePcs
    /\ faults < MaxFaults
    /\ faults' = faults + 1
    /\ UpdateRaised(pc, "I/O error")
    /\ UNCHANGED <<runs, stages, args, ret>>
    /\ UNCHANGED <<store, videos, lastRowId, now, uuidCount, impl, files, w2, stopReq, spc, sdata,
                   sjob, wdata, issued, started>>

\* ---------------------------------------------------------- specifications
\* one worker, every JobQueue operation one step, no I/O error
Next ==
    \/ CreateVideo
    \/ CleanupJobs
    \/ Tick
    \/ WorkerStart
    \/ WorkerLoop
    \/ WorkerPoll
    \/ WorkerSleep
    \/ MarkProcessing
    \/ UpdateProgress
    \/ PipelineReturns
    \/ PipelineRaises
    \/ MarkCompleted
    \/ MarkFailed

Spec == Init /\ [][Next]_vars

\* the same, with the worker loop scheduled fairly
LiveSpec == Spec /\ WF_vars(WorkerStep)

\* the same, with I/O errors in the worker's calls of the queue
FaultNext ==
    \/ Next
    \/ PollRaises
    \/ UpdateRaises

FaultSpec == Init /\ [][FaultNext]_vars

\* the submission path and the worker as two threads, each load and each
\* save of the file a step of its own
RaceNext ==
    \/ SubmitLoad
    \/ SubmitSave
    \/ WorkerStart
    \/ WorkerLoop
    \/ WorkerPoll
    \/ WorkerSleep
    \/ UpdateLoad
    \/ UpdateSave
    \/ PipelineReturns
    \/ PipelineRaises

RaceSpec == Init /\ [][RaceNext]_vars

\* one worker with generate_video taken stage by stage, and the deletion of
\* videos
StageNext ==
    \/ CreateVideo
    \/ WorkerStart
    \/ WorkerLoop
    \/ WorkerPoll
    \/ WorkerSleep
    \/ MarkProcessing
    \/ UpdateProgress
    \/ GenerateNarration
    \/ GeneratePrompts
    \/ GenerateImages
    \/ ComposeVideo
    \/ AddVideo
    \/ MarkCompleted
    \/ MarkFailed
    \/ DeleteVideo

StageSpec == Init /\ [][StageNext]_vars

\* the submission endpoint alone, with the clock
SubmitNext ==
    \/ create_video
    \/ Tick

SubmitSpec == Init /\ [][SubmitNext]_vars

\* one call of generate_images, on any of its inputs
ImageNext == CallGenerateImages

ImageSpec == Init /\ [][ImageNext]_vars

\* one call of generate_narration, on any of its inputs
NarrationNext == CallGenerateNarration

NarrationSpec == Init /\ [][NarrationNext]_vars

\* one call of generate_prompts, on any of its inputs
PromptNext == CallGeneratePrompts

PromptSpec == Init /\ [][PromptNext]_vars

\* one call of the fallback subtitle segmentation, on any of its inputs
SubtitleNext == CallFallbackSegmentation

SubtitleSpec == Init /\ [][SubtitleNext]_vars

\* the worker and the submission path, with one call of a queue operation
\* from another caller
QueueNext ==
    \/ CreateVideo
    \/ WorkerStart
    \/ WorkerLoop
    \/ WorkerPoll
    \/ WorkerSleep
    \/ MarkProcessing
    \/ UpdateProgress
    \/ PipelineReturns
    \/ PipelineRaises
    \/ MarkCompleted
    \/ MarkFailed
    \/ CallUpdateJob
    \/ CallGetNextJob
    \/ GetJobStatus

QueueSpec == Init /\ [][QueueNext]_vars

\* two workers polling the same store, each queue operation one step
TwoWorkerNext ==
    \/ CreateVideo
    \/ WorkerStart
    \/ WorkerLoop
    \/ WorkerPoll
    \/ WorkerSleep
    \/ MarkProcessing
    \/ UpdateProgress
    \/ PipelineReturns
    \/ PipelineRaises
    \/ MarkCompleted
    \/ MarkFailed
    \/ W2Start
    \/ W2Loop
    \/ W2Poll
    \/ W2Sleep
    \/ W2MarkProcessing
    \/ W2UpdateProgress
    \/ W2PipelineReturns
    \/ W2PipelineRaises
    \/ W2MarkCompleted
    \/ W2MarkFailed

TwoWorkerSpec == Init /\ [][TwoWorkerNext]_vars

\* one call of the timing step, on any of its inputs
TimingNext == CallCalculateTimings

TimingSpec == Init /\ [][TimingNext]_vars

\* one call of the image count, on any script length
CountNext == CallCalculateImageCount

CountSpec == Init /\ [][CountNext]_vars

\* one call of the fallback prompts, on any script length
ChunkNext == CallGenerateDefaultPrompts

ChunkSpec == Init /\ [][ChunkNext]_vars

\* one worker, the submissions and a stop request; the worker is scheduled
\* fairly
StopNext ==
    \/ CreateVideo
    \/ WorkerStart
    \/ WorkerLoop
    \/ WorkerPoll
    \/ WorkerSleep
    \/ MarkProcessing
    \/ UpdateProgress
    \/ PipelineReturns
    \/ PipelineRaises
    \/ MarkCompleted
    \/ MarkFailed
    \/ StopWorker
    \/ ProcessExit

StopSpec == Init /\ [][StopNext]_vars /\ WF_vars(WorkerStep)

\* the submission path and the worker as two threads, each load, each
\* opening of the file for writing and each write a step of its own
TornNext ==
    \/ TornSubmitLoad
    \/ SubmitTruncate
    \/ SubmitWrite
    \/ WorkerStart
    \/ WorkerLoop
    \/ TornWorkerPoll
    \/ WorkerSleep
    \/ TornUpdateLoad
    \/ UpdateTruncate
    \/ UpdateWrite
    \/ PipelineReturns
    \/ PipelineRaises

TornSpec == Init /\ [][TornNext]_vars

\* one worker at a time, scheduled fairly, with terminations of the process
\* followed by a new worker on the same store
CrashNext ==
    \/ CreateVideo
    \/ WorkerStart
    \/ WorkerLoop
    \/ WorkerPoll
    \/ WorkerSleep
    \/ MarkProcessing
    \/ UpdateProgress
    \/ PipelineReturns
    \/ PipelineRaises
    \/ MarkCompleted
    \/ MarkFailed
    \/ Restart

CrashSpec == Init /\ [][CrashNext]_vars /\ WF_vars(WorkerStep)

\* the catalog as completed runs fill it, with one lookup or one download
CatalogNext ==
    \/ GenerateVideo
    \/ GetVideo
    \/ DownloadVideo

CatalogSpec == Init /\ [][CatalogNext]_vars

\* ------------------------------------------------------------------ claims
JobIds == 1..MaxJobs

Last(q) == q[Len(q)]

StatusOf(data, id) == JobOf(data, id).status

Terminal(data, id) == HasJob(data, id) /\ StatusOf(data, id) \in {COMPLETED, FAILED}

Processing(data) == {k \in 1..Len(data.jobs) : data.jobs[k].status = PROCESSING}

\* the position of id in the sequence q, 0 when it is not there
PosIn(q, id) == IF id \in Range(q) THEN CHOOSE k \in 1..Len(q) : q[k] = id ELSE 0

Occurrences(q, id) == Cardinality({k \in 1..Len(q) : q[k] = id})

\* C1: every add_job returns an identifier no earlier add_job returned; right
\* after it get_job(id) is a queued job with progress 0 and started_at,
\* completed_at, result and error null, and id is the last of the Queue Index.
C1_AddJobContract ==
    [][Len(issued') = Len(issued) + 1 =>
        LET id == Last(issued')
            got == get_job(store', id)
        IN  /\ id \notin Range(issued)
            /\ got # None
            /\ got[1].id = id
            /\ got[1].status = QUEUED
            /\ got[1].progress = 0
            /\ got[1].started_at = None
            /\ got[1].completed_at = None
            /\ got[1].result = None
            /\ got[1].error = None
            /\ store'.queue # <<>>
            /\ Last(store'.queue) = id]_vars

\* a second job was added behind another one, after a cleanup removed a job
C1_Witness ==
    /\ Len(issued) = 3
    /\ Len(store.queue) = 2
    /\ Last(store.queue) = Last(issued)
    /\ StatusOf(store, Last(issued)) = QUEUED

\* C2: of two jobs, the one add_job returned first is moved to processing
\* first (and the later one is never started while the earlier one is not).
C2_StartedInSubmissionOrder ==
    \A x, y \in 1..Len(issued) :
        (x < y /\ issued[y] \in Range(started)) =>
            /\ issued[x] \in Range(started)
            /\ PosIn(started, issued[x]) < PosIn(started, issued[y])

\* three jobs were started, and a cleanup has removed one of them
C2_Witness ==
    /\ Len(started) = 3
    /\ Len(store.jobs) < 3

\* C3: a job's status changes only queued -> processing, by the worker's
\* claim of that job, and processing -> completed or failed, by the worker's
\* final update of that job; a terminal job never changes status; a job
\* enters the store queued and leaves it only when terminal.
C3_Lifecycle ==
    [][\A id \in JobIds :
        /\ (HasJob(store, id) /\ HasJob(store', id)) =>
              LET old == StatusOf(store, id)
                  new == StatusOf(store', id)
              IN  \/ new = old
                  \/ /\ old = QUEUED
                     /\ new = PROCESSING
                     /\ pc = "mark_processing"
                     /\ job[1].id = id
                  \/ /\ old = PROCESSING
                     /\ \/ new = COMPLETED /\ pc = "mark_completed"
                        \/ new = FAILED /\ pc = "mark_failed"
                     /\ job[1].id = id
        /\ (HasJob(store, id) /\ ~HasJob(store', id)) => Terminal(store, id)
        /\ (~HasJob(store, id) /\ HasJob(store', id)) => StatusOf(store', id) = QUEUED
      ]_vars

\* one job completed, one failed, and one was removed by cleanup
C3_Witness ==
    /\ Len(issued) = 3
    /\ Len(store.jobs) = 2
    /\ \E a, b \in Ids(store) : StatusOf(store, a) = COMPLETED /\ StatusOf(store, b) = FAILED

C6_TerminalFields ==
    \A k \in 1..Len(store.jobs) :
        LET j == store.jobs[k]
        IN  /\ j.status = COMPLETED =>
                /\ j.progress = 100
                /\ j.result # None
                /\ "id" \in DOMAIN j.result[1]
                /\ j.result[1].id \in 1..lastRowId
            /\ j.status = FAILED =>
                /\ j.error # None
                /\ j.result = None

\* a completed and a failed job are in the store
C6_Witness ==
    \E a, b \in Ids(store) : StatusOf(store, a) = COMPLETED /\ StatusOf(store, b) = FAILED

\* C7: every identifier of the Queue Index has a job record, none occurs
\* twice, and every queued job occurs in the Queue Index exactly once.
C7_QueueIndex ==
    /\ \A k \in 1..Len(store.queue) : HasJob(store, store.queue[k])
    /\ \A id \in Range(store.queue) : Occurrences(store.queue, id) = 1
    /\ \A k \in 1..Len(store.jobs) :
          store.jobs[k].status = QUEUED =>
              Occurrences(store.queue, store.jobs[k].id) = 1

\* a cleanup has removed a job; a terminal and a queued job are left
C7_Witness ==
    /\ Len(issued) = 3
    /\ Len(store.queue) = 2
    /\ \E a, b \in Range(store.queue) :
          /\ StatusOf(store, a) \in {COMPLETED, FAILED}
          /\ StatusOf(store, b) = QUEUED

C9_FailureHandled ==
    /\ [][(pc = "mark_failed" /\ pc' # "mark_failed") =>
            /\ pc' = "loop"
            /\ running'
            /\ get_job(store', job[1].id) # None
            /\ LET j == get_job(store', job[1].id)[1]
               IN  /\ j.status = FAILED
                   /\ j.error = Some(<<"Traceback", exc[1]>>)
                   /\ j.message = <<"Error: ", exc[1]>>]_vars
    /\ \A id \in JobIds :
          (pc = "mark_failed" /\ HasJob(store, id) /\ StatusOf(store, id) = QUEUED)
              ~> (id \in Range(started))

\* a job failed while a later job was queued, and that job was claimed after
C9_Witness ==
    \E a, b \in Ids(store) :
        /\ StatusOf(store, a) = FAILED
        /\ JobOf(store, b).created_at < JobOf(store, a).completed_at[1]
        /\ JobOf(store, b).started_at # None
        /\ JobOf(store, a).completed_at[1] <= JobOf(store, b).started_at[1]
        /\ PosIn(started, a) < PosIn(started, b)

Rank(status) ==
    CASE status = QUEUED -> 0
      [] status = PROCESSING -> 1
      [] status \in {COMPLETED, FAILED} -> 2

\* C5: with the load and save steps of add_job and of the worker's
\* update_job interleaved, no write is lost: every identifier add_job
\* returned stays in the store, and no job goes back to an earlier status
\* or loses its result.
C5_NoLostWrite ==
    [][/\ \A id \in Range(issued') : HasJob(store', id)
       /\ \A id \in Ids(store) \cap Ids(store') :
             /\ Rank(StatusOf(store', id)) >= Rank(StatusOf(store, id))
             /\ JobOf(store, id).result # None =>
                   JobOf(store', id).result = JobOf(store, id).result]_vars

\* C10: an exception of get_next_job, or of an update_job call outside the
\* job's try block, does not end the worker loop: once started, the worker
\* keeps its running flag and never leaves the loop.
C10_LoopSurvivesQueueError ==
    pc # "start" => (running /\ pc # "stopped")
\* C11: no job is retried.  generate_video ends at most once per job id; the
\* job get_next_job returns, and the one the worker's poll receives, is never
\* a failed one; and no step changes the status of a failed job.
C11_NoRetry ==
    /\ [](\A m, n \in 1..Len(runs) : runs[m].job = runs[n].job => m = n)
    /\ [](get_next_job(store) # None => get_next_job(store)[1].status # FAILED)
    /\ [][(pc = "poll" /\ job' # None)
            => StatusOf(store, job'[1].id) = QUEUED]_vars
    /\ [][\A id \in JobIds :
            (HasJob(store, id) /\ StatusOf(store, id) = FAILED /\ HasJob(store', id))
            => StatusOf(store', id) = FAILED]_vars

\* the first job failed and the worker went on to run the pipeline of the next
C11_Witness ==
    /\ Len(runs) >= 2
    /\ runs[1].video = None
    /\ runs[1].job # runs[2].job
    /\ HasJob(store, runs[1].job)
    /\ StatusOf(store, runs[1].job) = FAILED

\* the queued jobs strictly before id in the Queue Index
QueuedAhead(data, id) ==
    {k \in 1..(PosIn(data.queue, id) - 1) :
        HasJob(data, data.queue[k]) /\ StatusOf(data, data.queue[k]) = QUEUED}

\* C12: get_queue_position(job_id), computed from the jobs map in iteration
\* order, is the number of queued jobs strictly before the job in the Queue
\* Index, and -1 when the job is unknown or not queued.
C12_QueuePosition ==
    \A id \in JobIds :
        get_queue_position(store, id) =
            IF HasJob(store, id) /\ StatusOf(store, id) = QUEUED
            THEN Cardinality(QueuedAhead(store, id))
            ELSE -1

\* after an older job was cleaned up, a queued job that is second in the Queue
\* Index behind a job that is no longer queued: its position is 0
C12_Witness ==
    \E id \in JobIds :
        /\ get_queue_position(store, id) = 0
        /\ PosIn(store.queue, id) = 2
        /\ Len(issued) = 3
        /\ Len(store.queue) = 2

IsQueued(data, id) == HasJob(data, id) /\ StatusOf(data, id) = QUEUED

\* C13: for a fixed job id, get_queue_position never increases from one state
\* to the next while the job is queued, it is -1 in the state where the job has
\* left queued status, and a job that has left queued status stays out of it.
C13_PositionNeverIncreases ==
    [][\A id \in JobIds :
         /\ (IsQueued(store, id) /\ IsQueued(store', id))
               => get_queue_position(store', id) <= get_queue_position(store, id)
         /\ (IsQueued(store, id) /\ ~IsQueued(store', id))
               => get_queue_position(store', id) = -1
         /\ (id \in Range(issued) /\ ~IsQueued(store, id))
               => (~IsQueued(store', id) /\ get_queue_position(store', id) = -1)
      ]_vars

\* a job now first in line that was submitted while two older jobs were still
\* waiting to be claimed
C13_Witness ==
    \E id \in JobIds :
        /\ IsQueued(store, id)
        /\ get_queue_position(store, id) = 0
        /\ Cardinality({o \in Ids(store) :
               /\ o < id
               /\ JobOf(store, o).started_at # None
               /\ JobOf(store, o).started_at[1] > JobOf(store, id).created_at}) = 2

ViewIds(view) == {view[k].id : k \in 1..Len(view)}

\* the worker's claim of `job` has returned and its final update has not
Claimed == job # None /\ pc \in {"progress", "pipeline", "mark_completed", "mark_failed"}

Expired(data, days, t) ==
    {id \in Ids(data) :
        /\ StatusOf(data, id) \in {COMPLETED, FAILED}
        /\ JobOf(data, id).completed_at # None
        /\ JobOf(data, id).completed_at[1] < t - days}

\* C15: a cleanup_old_jobs(days) step removes exactly the completed or failed
\* jobs whose completed_at is earlier than the cutoff, from the jobs map and
\* from the Queue Index, returns their number, and leaves every other record,
\* and the order of the records and of the index, as they were.
C15_CleanupExact ==
    [][\A days \in Days :
         store' = cleanup_old_jobs(store, days, now) =>
           LET gone == Expired(store, days, now)
           IN  /\ Ids(store') = Ids(store) \ gone
               /\ Range(store'.queue) = Range(store.queue) \ gone
               /\ store'.jobs = SelectSeq(store.jobs, LAMBDA j : j.id \notin gone)
               /\ store'.queue = SelectSeq(store.queue, LAMBDA id : id \notin gone)
               /\ Len(jobs_to_remove(store, days, now)) = Cardinality(gone)
               /\ Len(jobs_to_remove(store, days, now)) = Len(store.jobs) - Len(store'.jobs)
               /\ \A id \in Ids(store) :
                     StatusOf(store, id) \in {QUEUED, PROCESSING} =>
                        JobsGet(store', id) = JobsGet(store, id)
      ]_vars

\* a cleanup has removed the oldest job and kept a terminal job and a job
\* that is queued or processing
C15_Witness ==
    /\ Len(issued) = 3
    /\ issued[1] \notin Ids(store)
    /\ Terminal(store, issued[2])
    /\ HasJob(store, issued[3])
    /\ ~Terminal(store, issued[3])
    /\ store.queue = <<issued[2], issued[3]>>

IsPrefix(s, t) == Len(s) <= Len(t) /\ s = SubSeq(t, 1, Len(s))

\* C16: a Video Record is written only by a generate_video call whose
\* narration, prompt, image and composition stages all completed, in that
\* order; stages complete one at a time in that order; when a stage raises,
\* no record is written, no further stage completes in that call, and the
\* worker goes to its except clause, whose update leaves the job failed.
C16_RecordOnlyAfterAllStages ==
    /\ [][Len(videos') > Len(videos) =>
            /\ pc = "add_video"
            /\ stages = PipelineStages
            /\ exc' = None
            /\ videos' = Append(videos, videos'[Len(videos')])]_vars
    /\ [][stages' # stages =>
            /\ IsPrefix(stages', PipelineStages)
            /\ \/ Len(stages') <= 1
               \/ stages = SubSeq(stages', 1, Len(stages') - 1)]_vars
    /\ [][(exc = None /\ exc' # None) =>
            /\ pc' = "mark_failed"
            /\ job' = job
            /\ videos' = videos
            /\ lastRowId' = lastRowId
            /\ Len(stages') <= Len(stages)]_vars
    /\ [][stages' # stages => pc \in {"pipeline", "prompts", "images", "compose"}]_vars
    /\ [][(pc = "mark_failed" /\ pc' # "mark_failed") =>
            /\ HasJob(store', job[1].id)
            /\ StatusOf(store', job[1].id) = FAILED
            /\ videos' = videos]_vars

\* image generation raised after narration and prompts had completed: the
\* worker is in its except clause and the call wrote no record
C16_Witness ==
    /\ pc = "mark_failed"
    /\ stages = <<"narration", "prompts">>
    /\ Len(runs) = 2
    /\ runs[1].video # None
    /\ runs[2].video = None
    /\ lastRowId = 1

CompletedIds(data) == {id \in Ids(data) : StatusOf(data, id) = COMPLETED}

\* the generate_video calls that wrote a record
Successes == {k \in 1..Len(runs) : runs[k].video # None}

\* C17: every completed job's result carries the id of the record that the
\* generate_video call for that job wrote; each call that succeeded wrote one
\* record, no two calls the same one; every row of the table was written by
\* such a call; and no two completed jobs carry the same record id.
C17_CompletedJobsAndRecords ==
    /\ \A id \in CompletedIds(store) :
          /\ JobOf(store, id).result # None
          /\ \E k \in Successes :
                /\ runs[k].job = id
                /\ runs[k].video = Some(JobOf(store, id).result[1].id)
    /\ \A m, n \in Successes : runs[m].video = runs[n].video => m = n
    /\ Cardinality(Successes) = lastRowId
    /\ \A v \in 1..Len(videos) :
          /\ \E k \in Successes : runs[k].video = Some(videos[v].id)
          /\ \A w \in 1..Len(videos) : videos[v].id = videos[w].id => v = w
    /\ \A a, b \in CompletedIds(store) :
          JobOf(store, a).result[1].id = JobOf(store, b).result[1].id => a = b

\* two completed jobs, the record of the second written after a record was
\* deleted
C17_Witness ==
    /\ Cardinality(CompletedIds(store)) = 2
    /\ lastRowId = 2
    /\ Len(videos) = 1
    /\ videos[1].id = 2

\* what the specification requires of a submission
ValidRequest(v) ==
    /\ v.script <= MAX_SCRIPT_LENGTH
    /\ v.format \in VIDEO_FORMATS
    /\ v.style \in VIDEO_STYLES

\* C18: a submission whose script is longer than MAX_SCRIPT_LENGTH, or whose
\* format or style is not a configured one, is rejected and creates no job;
\* a valid one, a script of exactly the maximum length included, is accepted.
\* So every job in the store comes from a valid submission, and the last
\* response is 202 exactly when the last request was valid.
C18_InvalidSubmissionRejected ==
    /\ \A k \in 1..Len(store.jobs) : ValidRequest(store.jobs[k].video_data)
    /\ ret # None => (ret[1].status_code = 202 <=> ValidRequest(args[1]))

\* C19: for every list of N prompts and every format the submission path
\* accepts, generate_images does not raise and returns N paths, the i-th made
\* for the i-th prompt; when no provider call gives an image, all N are
\* placeholders.
C19_OnePathPerPrompt ==
    ret # None =>
        LET call == args[1]
            out == ret[1]
        IN  /\ out.raised = None
            /\ Len(out.paths) = Len(call.prompts)
            /\ \A i \in 1..Len(out.paths) : out.paths[i][2] = i
            /\ (\A i \in 1..Len(call.prompts) : ~call.gemini[i] /\ ~call.dalle[i])
                  => \A i \in 1..Len(out.paths) : out.paths[i][1] = "placeholder"

\* C20: generate_narration calls the secondary provider exactly when the
\* primary is not configured or its call failed, returns the primary's audio
\* when the primary succeeds, and raises exactly when the secondary was
\* called and failed.
C20_NarrationFailover ==
    ret # None =>
        LET call == args[1]
            out == ret[1]
            configured == call.ELEVENLABS_AVAILABLE /\ call.ELEVENLABS_API_KEY
            primary == generate_with_elevenlabs(call)
            secondaryCalled == "openai" \in Range(out.called)
        IN  /\ secondaryCalled <=> (~configured \/ primary.raised # None)
            /\ ("elevenlabs" \in Range(out.called)) <=> configured
            /\ (configured /\ primary.raised = None) =>
                  /\ out.raised = None
                  /\ out.path = primary.path
                  /\ out.path[1][3] = "elevenlabs"
            /\ out.raised # None <=> (secondaryCalled /\ ~call.openai_ok)
            /\ (secondaryCalled /\ call.openai_ok) => out.path[1][3] = "openai"

\* the primary was called and failed, and the secondary's audio came back
C20_Witness ==
    /\ ret # None
    /\ ret[1].called = <<"elevenlabs", "openai">>
    /\ ret[1].raised = None
    /\ args[1].voice_name \in VOICE_TYPES

\* C21: a voice name that is not in the voice table is replaced by the
\* configured default and makes no provider attempt fail: with ElevenLabs in
\* use and its request working, ElevenLabs produces the audio with a voice of
\* the table; and the call succeeds whenever a provider in use is working.
C21_UnknownVoiceDefaults ==
    ret # None =>
        LET call == args[1]
            out == ret[1]
            primaryWorks == use_elevenlabs(call) /\ call.elevenlabs_ok
        IN  /\ (call.voice_name \notin VOICE_TYPES /\ primaryWorks) =>
                  /\ out.raised = None
                  /\ out.called = <<"elevenlabs">>
                  /\ out.path[1][2] \in VOICE_TYPES
            /\ (primaryWorks \/ call.openai_ok) => out.raised = None

\* C22: generate_prompts does not raise and returns exactly N prompts, N the
\* image count of the script: a parsed answer of fewer than N prompts is
\* followed by copies of its last prompt, one of more than N is cut to its
\* first N, and a failed, unparsable or empty answer gives the N fallback
\* prompts.
C22_ExactlyNPrompts ==
    ret # None =>
        LET call == args[1]
            out == ret[1]
            N == calculate_image_count(call.script)
            given == call.answer.prompts
            K == Len(given)
        IN  /\ out.raised = None
            /\ Len(out.prompts) = N
            /\ (call.answer.kind = "list" /\ K > 0) =>
                  \A i \in 1..N : out.prompts[i] = given[Min(i, K)]
            /\ (call.answer.kind # "list" \/ K = 0) =>
                  \A i \in 1..N : out.prompts[i].negative_prompt = "default"

\* an answer of fewer prompts than the image count, padded with its last one
C22_Witness ==
    /\ ret # None
    /\ args[1].answer.kind = "list"
    /\ Len(args[1].answer.prompts) = 2
    /\ Len(ret[1].prompts) = 10
    /\ ret[1].prompts[10] = args[1].answer.prompts[2]

\* C23: for a script of at least one word and a positive duration the timed
\* segments are ordered and contiguous: each start_time is at most its
\* end_time, each end_time is the next start_time, the first start_time is 0
\* and the last end_time is the total duration.
C23_SegmentsContiguous ==
    (ret # None /\ Len(args[1].script) >= 1) =>
        LET segs == ret[1]
            n == Len(segs)
        IN  /\ n >= 1
            /\ segs[1].start_time = 0
            /\ segs[n].end_time = args[1].audio_duration
            /\ \A i \in 1..n : segs[i].start_time <= segs[i].end_time
            /\ \A i \in 1..(n - 1) : segs[i].end_time = segs[i + 1].start_time

\* the texts joined in order with single spaces
RECURSIVE JoinTexts(_)
JoinTexts(texts) ==
    IF texts = <<>> THEN <<>>
    ELSE IF Len(texts) = 1 THEN texts[1]
    ELSE texts[1] \o <<SPACE>> \o JoinTexts(Tail(texts))

\* C24: with the fallback segmenter the segment texts, joined in order with
\* single spaces, are the script's words, each once and in order, and every
\* segment but the last has 6 words (the last has 1 to 6).
C24_FallbackKeepsWords ==
    ret # None =>
        LET segs == ret[1]
            n == Len(segs)
            texts == [i \in 1..n |-> segs[i].text]
        IN  /\ split(JoinTexts(texts)) = args[1].script
            /\ JoinTexts(texts) = join(args[1].script)
            /\ \A i \in 1..(n - 1) : Len(split(texts[i])) = 6
            /\ n >= 1 => Len(split(texts[n])) \in 1..6

\* a script of 20 words: three segments of 6 words and one of 2
C24_Witness ==
    /\ ret # None
    /\ Len(args[1].script) = 20
    /\ Len(ret[1]) = 4
    /\ Len(split(ret[1][4].text)) = 2


Called(op) == args = None /\ args' # None /\ args'[1].op = op

\* C26: update_job with an identifier that is not in the store raises the
\* not-found error and leaves the jobs map and the Queue Index as they were;
\* a status request for an unknown identifier answers not found and changes
\* nothing either.
C26_UnknownIdChangesNothing ==
    [][/\ (Called("update_job") /\ ~HasJob(store, args'[1].job_id)) =>
            /\ ret'[1].raised = Some("Job not found")
            /\ store'.jobs = store.jobs
            /\ store'.queue = store.queue
       /\ (Called("job_status") /\ ~HasJob(store, args'[1].job_id)) =>
            /\ ret'[1].status_code = 404
            /\ store' = store]_vars

\* update_job was called with an identifier that is not among two stored jobs
C26_Witness ==
    /\ args # None
    /\ args[1].op = "update_job"
    /\ ~HasJob(store, args[1].job_id)
    /\ Len(store.jobs) = 2
    /\ ret[1].raised # None


\* the identifiers of the Queue Index of data whose job is queued, in order
QueuedInIndex(data) ==
    SelectSeq(data.queue,
              LAMBDA id : HasJob(data, id) /\ StatusOf(data, id) = QUEUED)

\* what a call of get_next_job on data has to return
FirstQueuedJob(data) ==
    IF QueuedInIndex(data) = <<>> THEN None
    ELSE Some(JobOf(data, Head(QueuedInIndex(data))))

\* C27: get_next_job returns the first job in Queue Index order that is
\* queued, or none when no job is queued, and changes neither the jobs map
\* nor the Queue Index; the job it returned is still queued in the store
\* after the call (only a later update_job claims it).  It is stated for the
\* call from outside and for the worker's poll.
C27_GetNextJobReadsOnly ==
    [][/\ Called("get_next_job") =>
            /\ ret'[1].value = FirstQueuedJob(store)
            /\ store' = store
            /\ ret'[1].value # None =>
                   StatusOf(store', ret'[1].value[1].id) = QUEUED
       /\ (pc = "poll" /\ pc' # "poll") =>
            /\ job' = FirstQueuedJob(store)
            /\ store' = store
            /\ job' # None => StatusOf(store', job'[1].id) = QUEUED]_vars

\* get_next_job returned the second job of the Queue Index: the first is not
\* queued any more
C27_Witness ==
    /\ args # None
    /\ args[1].op = "get_next_job"
    /\ ret[1].value # None
    /\ Len(store.queue) >= 2
    /\ ret[1].value[1].id = store.queue[2]
    /\ StatusOf(store, store.queue[1]) # QUEUED
    /\ StatusOf(store, store.queue[2]) = QUEUED


\* new is old with exactly the fields of updates written
OnlyFieldsWritten(old, new, updates) ==
    /\ DOMAIN new = DOMAIN old \cup DOMAIN updates
    /\ \A f \in DOMAIN updates : new[f] = updates[f]
    /\ \A f \in DOMAIN old \ DOMAIN updates : new[f] = old[f]

\* after is before with the fields of updates written to the job job_id and
\* nothing else touched
OnlyJobUpdated(before, after, job_id, updates) ==
    /\ after.queue = before.queue
    /\ Len(after.jobs) = Len(before.jobs)
    /\ \A k \in 1..Len(before.jobs) :
           IF before.jobs[k].id = job_id
           THEN OnlyFieldsWritten(before.jobs[k], after.jobs[k], updates)
           ELSE after.jobs[k] = before.jobs[k]

\* C28: update_job(job_id, fields) writes the named fields of the named job
\* and nothing else: the job's other fields, every other job's record and the
\* Queue Index keep their values (for the calls of the worker and for a call
\* from outside); add_job leaves every existing record as it was and keeps
\* the existing Queue Index as a prefix of the new one.
C28_UpdateAndAddFrame ==
    [][/\ (Called("update_job") /\ HasJob(store, args'[1].job_id)) =>
            OnlyJobUpdated(store, store', args'[1].job_id, args'[1].updates)
       /\ (pc \in UpdatePcs /\ pc' # pc /\ job # None /\ HasJob(store, job[1].id)) =>
            OnlyJobUpdated(store, store', job[1].id, UpdateFields(pc, now))
       /\ uuidCount' # uuidCount =>
            /\ Len(store'.jobs) = Len(store.jobs) + 1
            /\ \A k \in 1..Len(store.jobs) : store'.jobs[k] = store.jobs[k]
            /\ Len(store'.queue) = Len(store.queue) + 1
            /\ IsPrefix(store.queue, store'.queue)]_vars

\* update_job wrote the progress of a queued job, one of three stored jobs, and
\* the job is still queued
C28_Witness ==
    /\ args # None
    /\ args[1].op = "update_job"
    /\ HasJob(store, args[1].job_id)
    /\ DOMAIN args[1].updates = {"progress", "message"}
    /\ Len(store.jobs) = 3
    /\ JobOf(store, args[1].job_id).progress = 15
    /\ StatusOf(store, args[1].job_id) = QUEUED


\* C29: with two workers on one store updates are lost.  get_next_job does
\* not claim: while one worker holds a job it has not yet marked processing,
\* the other worker's poll returns that same job.  update_job looks at no
\* status: a worker's final update of a job sets the status it writes,
\* whatever the other worker wrote before.  The witness is a state in which
\* both workers are running the pipeline for one job, a job completed by one
\* worker has been overwritten to failed by the other, and one failed by one
\* worker has been overwritten to completed.
C29_NoClaimNoGuard ==
    [][/\ (w2.pc = "poll" /\ w2'.pc # "poll" /\ job # None
             /\ StatusOf(store, job[1].id) = QUEUED) => w2'.job = job
       /\ (pc = "poll" /\ pc' # "poll" /\ w2.job # None
             /\ StatusOf(store, w2.job[1].id) = QUEUED) => job' = w2.job
       /\ (w2.pc \in {"mark_completed", "mark_failed"} /\ w2'.pc # w2.pc
             /\ HasJob(store, w2.job[1].id)) =>
            StatusOf(store', w2.job[1].id) =
                IF w2.pc = "mark_completed" THEN COMPLETED ELSE FAILED
       /\ (pc \in {"mark_completed", "mark_failed"} /\ pc' # pc
             /\ HasJob(store, job[1].id)) =>
            StatusOf(store', job[1].id) =
                IF pc = "mark_completed" THEN COMPLETED ELSE FAILED]_vars

\* both workers are in generate_video for the same job; another job is failed
\* and still carries the result of its completion; a third is completed and
\* still carries the error of its failure
C29_Witness ==
    /\ pc = "pipeline"
    /\ w2.pc = "pipeline"
    /\ job[1].id = w2.job[1].id
    /\ \E a \in Ids(store) :
           StatusOf(store, a) = FAILED /\ JobOf(store, a).result # None
    /\ \E b \in Ids(store) :
           StatusOf(store, b) = COMPLETED /\ JobOf(store, b).error # None


\* the positions of the worker inside generate_video
StagePcs == {"pipeline", "prompts", "images", "compose", "add_video"}

CallsFor(log, i) == SelectSeq(log, LAMBDA c : c[2] = i)

\* C31: for each prompt the providers are tried in a fixed order: Gemini
\* first when it is configured; DALL-E exactly when Gemini is not configured
\* or gave no image, and after it; the placeholder exactly when neither gave
\* an image, and last.  A prompt whose Gemini call gives an image has no
\* other call.  (A prompt has no call at all only after the call has raised.)
C31_ProviderOrder ==
    ret # None =>
        LET call == args[1]
            log == ret[1].called
        IN  \A i \in 1..Len(call.prompts) :
                LET mine == CallsFor(log, i)
                    names == [k \in 1..Len(mine) |-> mine[k][1]]
                    primary == call.gemini_key /\ call.gemini[i]
                IN  /\ ret[1].raised = None => mine # <<>>
                    /\ mine # <<>> =>
                      /\ primary => names = <<"gemini">>
                      /\ (call.gemini_key /\ ~call.gemini[i] /\ call.dalle[i])
                             => names = <<"gemini", "dalle">>
                      /\ (~call.gemini_key /\ call.dalle[i]) => names = <<"dalle">>
                      /\ (call.gemini_key /\ ~call.gemini[i] /\ ~call.dalle[i])
                             => names = <<"gemini", "dalle", "placeholder">>
                      /\ (~call.gemini_key /\ ~call.dalle[i])
                             => names = <<"dalle", "placeholder">>

\* three prompts: the first is drawn by Gemini, the second by DALL-E after
\* Gemini gave nothing, the third is a placeholder
C31_Witness ==
    /\ ret # None
    /\ ret[1].raised = None
    /\ args[1].gemini_key
    /\ Len(args[1].prompts) = 3
    /\ ret[1].called = <<<<"gemini", 1>>, <<"gemini", 2>>, <<"dalle", 2>>,
                         <<"gemini", 3>>, <<"dalle", 3>>, <<"placeholder", 3>>>>


\* C32: every segment but the last lasts between 0.8 s and 5 s, and no
\* segment, the last included, has zero duration.
C32_SegmentDurations ==
    ret # None =>
        LET segs == ret[1]
            n == Len(segs)
        IN  /\ \A i \in 1..(n - 1) :
                 /\ segs[i].end_time - segs[i].start_time >= 800
                 /\ segs[i].end_time - segs[i].start_time <= 5000
            /\ \A i \in 1..n : segs[i].end_time - segs[i].start_time > 0


\* the documented band of image counts for a script of w words
BandOf(w) ==
    IF w < 100 THEN 3..5
    ELSE IF w < 300 THEN 5..7
    ELSE IF w < 500 THEN 7..10
    ELSE 10..12

\* the word counts that share w's band
BandWords(w) == {v \in 0..MaxScriptWords : BandOf(v) = BandOf(w)}

\* the part of C33 every call satisfies: the count lies in the band of the
\* script's word count, is not zero, and a script one word longer never gets
\* fewer images
CountInBandAndMonotone ==
    ret # None =>
        LET w == Len(args[1].script)
        IN  /\ ret[1] \in BandOf(w)
            /\ ret[1] > 0
            /\ calculate_image_count(Words(w + 1)) >= ret[1]

\* C33: the image count of a script of w words lies in the documented band
\* (3 to 5, 5 to 7, 7 to 10, 10 to 12), is never zero, does not decrease
\* when w grows, and every value of the band is the count of some script of
\* that band.
C33_ImageCountBands ==
    /\ CountInBandAndMonotone
    /\ ret # None =>
           \A n \in BandOf(Len(args[1].script)) :
               \E v \in BandWords(Len(args[1].script)) :
                   calculate_image_count(Words(v)) = n


\* the lists of seqs one after the other
RECURSIVE Concat(_)
Concat(seqs) == IF seqs = <<>> THEN <<>> ELSE Head(seqs) \o Concat(Tail(seqs))

\* C34: the fallback splits the W words of the script into N consecutive
\* chunks that hold every word once and in order; when W >= N no chunk is
\* empty, and two chunks never differ by N words or more.
C34_FallbackChunks ==
    ret # None =>
        LET words == args[1].script
            prompts == ret[1]
            N == Len(prompts)
            chunks == [k \in 1..N |-> prompts[k].prompt[2]]
        IN  /\ N = calculate_image_count(words)
            /\ Concat(chunks) = words
            /\ Len(words) >= N => \A k \in 1..N : chunks[k] # <<>>
            /\ \A k, m \in 1..N : Len(chunks[k]) - Len(chunks[m]) < N

\* a script of 45 words in 4 chunks: three of 11 words and a last one of 12
C34_Witness ==
    /\ ret # None
    /\ Len(args[1].script) = 45
    /\ Len(ret[1]) = 4
    /\ Len(ret[1][1].prompt[2]) = 11
    /\ Len(ret[1][4].prompt[2]) = 12


\* the worker holds the job id between its claim and its final update
Holds(id) == job # None /\ job[1].id = id /\ pc \in UpdatePcs \cup {"pipeline"}

\* C35: once a stop has been requested the worker's loop ends, also when the
\* request came before the loop had started; the job the worker holds at
\* that time still reaches completed or failed; and when the worker next
\* tests the flag it does not go on to poll.
C35_CooperativeStop ==
    /\ stopReq ~> (pc = "stopped")
    /\ \A id \in JobIds : (stopReq /\ Holds(id)) ~> Terminal(store, id)
    /\ [][(stopReq /\ pc = "loop") => pc' # "poll"]_vars


\* C36: a save is atomic for the readers of the same process.  Once a job
\* has been persisted, the copy add_job loads holds the persisted jobs (with
\* the new job it has at least two), and the stored file never consists of
\* the newest job alone when earlier jobs had been returned.
C36_SaveAtomicForReaders ==
    /\ [][(spc = "idle" /\ spc' = "loaded" /\ issued # <<>>)
            => Len(sdata'[1].jobs) >= 2]_vars
    /\ []((store # TRUNCATED /\ Len(issued) >= 2)
            => ~(Len(store.jobs) = 1 /\ store.jobs[1].id = Last(issued)))


\* C37: a job that is processing when the process terminates is recovered by
\* the worker of the next process: every processing job eventually is
\* completed or failed, and at no time are two jobs processing.
C37_InterruptedJobRecovered ==
    /\ \A id \in JobIds :
           (HasJob(store, id) /\ StatusOf(store, id) = PROCESSING)
               ~> Terminal(store, id)
    /\ [](Cardinality(Processing(store)) <= 1)


\* C38: video records are independent. No two records of the table have the
\* same path, and a deletion of one record leaves the file of every record
\* that stays in the table where it was.
C38_RecordsIndependent ==
    /\ [](\A k, m \in 1..Len(videos) :
              k # m => videos[k].path # videos[m].path)
    /\ [][Len(videos') < Len(videos) =>
             \A m \in 1..Len(videos') :
                 videos'[m].path \in files => videos'[m].path \in files']_vars


\* C39: download and lookup agree. A download of an identifier whose record
\* get_video finds, and whose file exists, finds the record too and answers
\* with the file, however many records the table holds.
C39_DownloadAgreesWithLookup ==
    (ret # None /\ args[1].op = "download_video") =>
        LET video == get_video(videos, args[1].video_id)
        IN  (video # None /\ video[1].path \in files) =>
                /\ ret[1].status = 200
                /\ ret[1].path = video[1].path

====
